---- MODULE Spec2Model ----
(***************************************************************************)
(* A model of the request-plane core of the proxy: the cache router        *)
(* (linkerd/cache), the buffer queue (linkerd/buffer), the admission       *)
(* layers (linkerd/app/{inbound,outbound}) and the retry policy            *)
(* (linkerd/retry, linkerd/app/core/src/retry.rs).                         *)
(*                                                                         *)
(* Each subsystem has its own variables, initial condition, next-state     *)
(* relation and specification (SpecCache, SpecBuffer, SpecAdmit,           *)
(* SpecRetry); a subsystem's specification leaves the variables of the     *)
(* other subsystems at their initial values.                               *)
(***************************************************************************)
EXTENDS Integers, Sequences, FiniteSets, TLC

VARIABLES
    \* ---- linkerd/cache ----
    cache,        \* Cache<T, M::Service>: key -> entry (NoEntry when absent)
    cacheLock,    \* tokio::sync::lock::Lock around the cache: 0 free, else the holder
    fut,          \* one ResponseFuture per caller
    makes,        \* per key: maker invocations since the key last became resident
    purged,       \* the keys the purge task removed, when it made the latest step
    \* ---- linkerd/buffer ----
    in_flight,    \* Inner::in_flight: the queued tokens, in IndexMap order
    next_token,   \* Inner::next_token
    push_tasks,   \* Inner::push_tasks: the senders parked for capacity
    pop_task,     \* Inner::pop_task: TRUE when the daemon's task is registered
    push,         \* one Push handle (a clone of the sender) per sender task
    pfut,         \* one PushFuture per token
    pop,          \* the Pop handle and the daemon task that owns it
    notified,     \* tasks with a pending task::notify (0 is the daemon)
    dispatched,   \* the tokens the daemon handed to the inner service, in order
    \* ---- admission layers ----
    adm,          \* one clone of the admitted service, and its request, per client
    reached,      \* the requests that were passed to the inner service
    \* ---- retry ----
    credit,       \* the route's retry budget: the credit it can still grant
    budget_ops,   \* the budget operations of the latest Retry::retry
    rq,           \* one tower::retry::future::ResponseFuture per request
    backend,      \* the answers of the inner service so far, and to which request
    deposited,    \* the deposits the budget has recorded
    withdrawn,    \* the withdrawals the budget has granted
    \* ---- linkerd/lock ----
    lock_state,   \* State<S, E> inside the tokio lock: the service, or the error
    lock_holder,  \* the clone that owns the LockGuard, 0 when the lock is free
    lk,           \* one clone of the Lock per task
    inner_op,     \* what the latest step did on the inner service, and for whom
    lock_freed,   \* the clone whose drop released the guard, until the next call or drop
    \* ---- linkerd/fallback ----
    mkf,          \* one MakeFuture per caller of the MakeSvc
    \* ---- linkerd/router ----
    rtf,          \* one router ResponseFuture per caller
    \* ---- profiles: per-request routes ----
    routes,       \* Requests::routes: the (condition, route) pairs, in order
    proxied,      \* the latest request and the routes it was proxied through
    \* ---- profiles: concrete dispatcher ----
    c_routes,     \* Service::routes: the table the dispatcher uses
    c_ver,        \* the version Service::updates (the watch receiver) has seen
    next_split_index, \* Service::next_split_index, 0 for None
    c_ready,      \* the latest poll_ready returned Ready and no call was made since
    c_last,       \* the latest step on the dispatcher and what it did
    watch,        \* the watch channel: the value published last and its version
    u_routes,     \* Update::routes
    made,         \* the services made so far (the latest has this number)
    \* ---- outbound endpoints ----
    ep_cache,     \* the keys of the endpoint cache
    ep_got,       \* what the latest access of the endpoint cache returned
    \* ---- app/core svc: stacks of layers ----
    sv_pushed,    \* the layers pushed, in the order of the pushes
    sv_stack,     \* the service built by Stack::push, one layer at a time
    sv_layered,   \* the service built by applying the composed Layers once
    sv_inner,     \* what the inner service answered to the latest poll_ready
    sv_out,       \* what the latest operation returned, on each of the two
    \* ---- http-metrics: the registry of per-target metrics ----
    mr_now,       \* clock::now()
    mr_by_target, \* Registry::by_target, with the handles held outside it
    mr_retained,  \* the latest retain_since: its epoch and the registry before
    \* ---- proxy/http canonicalize ----
    cn_state,     \* Task::state
    cn_resolved,  \* Task::resolved
    cn_watch,     \* the value held by the watch channel
    cn_req,       \* each request's ResponseFuture and the calls made for it
    cn_outcome,   \* the outcome of the refinement in effect, and whether it was broadcast
    \* ---- linkerd/app/outbound: the two error-caching locks ----
    ob_balancer,  \* per concrete target: State<S, LogicalError> of the balancer's lock
    ob_profile,   \* per profile target: State<S, LogicalError> of the profile's lock
    ob_raised,    \* per concrete target: the error its balancer raised (NoError: none)
    ob_src,       \* per profile target: the balancer's error that poisoned its lock
    ob_res        \* per profile target: what its latest poll_ready returned

cacheVars == <<cache, cacheLock, fut, makes, purged>>

bufferVars == <<in_flight, next_token, push_tasks, pop_task, push, pfut, pop, notified, dispatched>>

admitVars == <<adm, reached>>

retryVars == <<credit, budget_ops, rq, backend, deposited, withdrawn>>

lockVars == <<lock_state, lock_holder, lk, inner_op, lock_freed>>

fallbackVars == <<mkf>>

routerVars == <<rtf>>

requestsVars == <<routes, proxied>>

concreteVars == <<c_routes, c_ver, next_split_index, c_ready, c_last, watch, u_routes, made>>

endpointVars == <<ep_cache, ep_got>>

svcVars == <<sv_pushed, sv_stack, sv_layered, sv_inner, sv_out>>

metricsVars == <<mr_now, mr_by_target, mr_retained>>

canonVars == <<cn_state, cn_resolved, cn_watch, cn_req, cn_outcome>>

outboundVars == <<ob_balancer, ob_profile, ob_raised, ob_src, ob_res>>

vars == <<cacheVars, bufferVars, admitVars, retryVars, lockVars, fallbackVars, routerVars, requestsVars, concreteVars, endpointVars, svcVars, metricsVars, canonVars, outboundVars>>

nonCacheVars == <<bufferVars, admitVars, retryVars, lockVars, fallbackVars, routerVars, requestsVars, concreteVars, endpointVars, svcVars, metricsVars, canonVars, outboundVars>>

nonBufferVars == <<cacheVars, admitVars, retryVars, lockVars, fallbackVars, routerVars, requestsVars, concreteVars, endpointVars, svcVars, metricsVars, canonVars, outboundVars>>

nonAdmitVars == <<cacheVars, bufferVars, retryVars, lockVars, fallbackVars, routerVars, requestsVars, concreteVars, endpointVars, svcVars, metricsVars, canonVars, outboundVars>>

nonRetryVars == <<cacheVars, bufferVars, admitVars, lockVars, fallbackVars, routerVars, requestsVars, concreteVars, endpointVars, svcVars, metricsVars, canonVars, outboundVars>>

nonLockVars == <<cacheVars, bufferVars, admitVars, retryVars, fallbackVars, routerVars, requestsVars, concreteVars, endpointVars, svcVars, metricsVars, canonVars, outboundVars>>

nonFallbackVars == <<cacheVars, bufferVars, admitVars, retryVars, lockVars, routerVars, requestsVars, concreteVars, endpointVars, svcVars, metricsVars, canonVars, outboundVars>>

nonRouterVars == <<cacheVars, bufferVars, admitVars, retryVars, lockVars, fallbackVars, requestsVars, concreteVars, endpointVars, svcVars, metricsVars, canonVars, outboundVars>>

nonRequestsVars == <<cacheVars, bufferVars, admitVars, retryVars, lockVars, fallbackVars, routerVars, concreteVars, endpointVars, svcVars, metricsVars, canonVars, outboundVars>>

nonConcreteVars == <<cacheVars, bufferVars, admitVars, retryVars, lockVars, fallbackVars, routerVars, requestsVars, endpointVars, svcVars, metricsVars, canonVars, outboundVars>>

nonEndpointVars == <<cacheVars, bufferVars, admitVars, retryVars, lockVars, fallbackVars, routerVars, requestsVars, concreteVars, svcVars, metricsVars, canonVars, outboundVars>>

nonSvcVars == <<cacheVars, bufferVars, admitVars, retryVars, lockVars, fallbackVars, routerVars, requestsVars, concreteVars, endpointVars, metricsVars, canonVars, outboundVars>>

nonMetricsVars == <<cacheVars, bufferVars, admitVars, retryVars, lockVars, fallbackVars, routerVars, requestsVars, concreteVars, endpointVars, svcVars, canonVars, outboundVars>>

nonCanonVars == <<cacheVars, bufferVars, admitVars, retryVars, lockVars, fallbackVars, routerVars, requestsVars, concreteVars, endpointVars, svcVars, metricsVars, outboundVars>>

nonOutboundVars == <<cacheVars, bufferVars, admitVars, retryVars, lockVars, fallbackVars, routerVars, requestsVars, concreteVars, endpointVars, svcVars, metricsVars, canonVars>>

(***************************************************************************)
(*                              linkerd/cache                              *)
(***************************************************************************)

\* Bounds of the cache model.
NumKeys == 2
NumCallers == 2
Capacity == 1
MaxIdleAge == 0

Keys == 1..NumKeys
Callers == 1..NumCallers
\* Service instances (the Rc/Arc a maker returns). An identity is free for
\* reuse once neither the cache nor any handle refers to it.
SvcIds == 1..(NumKeys + NumCallers)

\* An entry holds its service and its idle age: the time since its last access,
\* counted up to MaxIdleAge + 1 (any greater age is as idle).
NoEntry == [svc |-> 0, age |-> 0]
NoFuture == [pc |-> "idle", target |-> 0, res |-> "none", svc |-> 0, cap |-> 0]

\* The keys resident in the cache.
Resident == {k \in Keys : cache[k] # NoEntry}

\* Service identities referred to by the cache or by a handle a caller holds.
LiveSvcs == {cache[k].svc : k \in Resident} \cup {fut[c].svc : c \in Callers}

\* Cache::access: the cached service of a key, 0 when the key is absent.
access(k) == cache[k].svc

\* Cache::can_insert: there is room for one more entry.
can_insert == Cardinality(Resident) < Capacity

\* Cache::capacity.
capacity == Capacity

\* Make::make: the maker builds a new service instance on every invocation.
make == CHOOSE s \in SvcIds : s \notin LiveSvcs /\ \A x \in SvcIds : x \notin LiveSvcs => s <= x

\* Cache::insert, and the refresh of last-access that Cache::access does.
insert(k, s) == [cache EXCEPT ![k] = [svc |-> s, age |-> 0]]

CacheInit ==
    /\ cache = [k \in Keys |-> NoEntry]
    /\ cacheLock = 0
    /\ fut = [c \in Callers |-> NoFuture]
    /\ makes = [k \in Keys |-> 0]
    /\ purged = {}

\* Router::call: a new ResponseFuture for the target.
RouterCall(c, k) ==
    /\ fut[c].pc = "idle"
    /\ fut' = [fut EXCEPT ![c] = [NoFuture EXCEPT !.pc = "pending", !.target = k]]
    /\ purged' = {}
    /\ UNCHANGED <<cache, cacheLock, makes>>
    /\ UNCHANGED nonCacheVars

\* ResponseFuture::poll, the poll_lock at its head: the lock is taken when
\* free, and the poll returns NotReady when another poll holds it.
PollLock(c) ==
    /\ fut[c].pc = "pending"
    /\ IF cacheLock = 0
       THEN /\ cacheLock' = c
            /\ fut' = [fut EXCEPT ![c].pc = "locked"]
       ELSE /\ fut' = [fut EXCEPT ![c].res = "NotReady"]
            /\ UNCHANGED cacheLock
    /\ purged' = {}
    /\ UNCHANGED <<cache, makes>>
    /\ UNCHANGED nonCacheVars

\* ResponseFuturePoll without the capacity check: every miss inserts.
PollNoCapacityCheck(c) ==
    LET k == fut[c].target IN
    /\ fut[c].pc = "locked"
    /\ cacheLock = c
    /\ IF access(k) # 0
       THEN /\ cache' = insert(k, access(k))
            /\ fut' = [fut EXCEPT ![c] = [@ EXCEPT !.pc = "done", !.res = "Ok", !.svc = access(k)]]
            /\ UNCHANGED makes
       ELSE /\ cache' = insert(k, make)
            /\ makes' = [makes EXCEPT ![k] = @ + 1]
            /\ fut' = [fut EXCEPT ![c] = [@ EXCEPT !.pc = "done", !.res = "Ok", !.svc = make]]
    /\ cacheLock' = 0
    /\ purged' = {}
    /\ UNCHANGED nonCacheVars

\* ResponseFuturePoll where a miss on a full cache waits for room (the
\* future stays pending) instead of failing.
PollWaitsWhenFull(c) ==
    LET k == fut[c].target IN
    /\ fut[c].pc = "locked"
    /\ cacheLock = c
    /\ IF access(k) # 0
       THEN /\ cache' = insert(k, access(k))
            /\ fut' = [fut EXCEPT ![c] = [@ EXCEPT !.pc = "done", !.res = "Ok", !.svc = access(k)]]
            /\ UNCHANGED makes
       ELSE IF ~can_insert
       THEN /\ fut' = [fut EXCEPT ![c] = [@ EXCEPT !.pc = "pending", !.res = "NotReady"]]
            /\ UNCHANGED <<cache, makes>>
       ELSE /\ cache' = insert(k, make)
            /\ makes' = [makes EXCEPT ![k] = @ + 1]
            /\ fut' = [fut EXCEPT ![c] = [@ EXCEPT !.pc = "done", !.res = "Ok", !.svc = make]]
    /\ cacheLock' = 0
    /\ purged' = {}
    /\ UNCHANGED nonCacheVars

\* ResponseFuturePoll without the lookup: every poll with room, or for a
\* resident key, makes and inserts a service.
PollAlwaysMakes(c) ==
    LET k == fut[c].target IN
    /\ fut[c].pc = "locked"
    /\ cacheLock = c
    /\ IF ~can_insert /\ access(k) = 0
       THEN /\ fut' = [fut EXCEPT ![c] = [@ EXCEPT !.pc = "done", !.res = "NoCapacity", !.cap = capacity]]
            /\ UNCHANGED <<cache, makes>>
       ELSE /\ cache' = insert(k, make)
            /\ makes' = [makes EXCEPT ![k] = @ + 1]
            /\ fut' = [fut EXCEPT ![c] = [@ EXCEPT !.pc = "done", !.res = "Ok", !.svc = make]]
    /\ cacheLock' = 0
    /\ purged' = {}
    /\ UNCHANGED nonCacheVars

\* ResponseFuture::poll once the lock is held: a hit returns a clone of the
\* cached service, a miss on a full cache fails with NoCapacity(capacity),
\* any other miss makes a service, inserts it and returns it. The guard is
\* dropped when poll returns.
ResponseFuturePoll(c) ==
    LET k == fut[c].target IN
    /\ fut[c].pc = "locked"
    /\ cacheLock = c
    /\ IF access(k) # 0
       THEN /\ cache' = insert(k, access(k))
            /\ fut' = [fut EXCEPT ![c] = [@ EXCEPT !.pc = "done", !.res = "Ok", !.svc = access(k)]]
            /\ UNCHANGED makes
       ELSE IF ~can_insert
       THEN /\ fut' = [fut EXCEPT ![c] = [@ EXCEPT !.pc = "done", !.res = "NoCapacity", !.cap = capacity]]
            /\ UNCHANGED <<cache, makes>>
       ELSE /\ cache' = insert(k, make)
            /\ makes' = [makes EXCEPT ![k] = @ + 1]
            /\ fut' = [fut EXCEPT ![c] = [@ EXCEPT !.pc = "done", !.res = "Ok", !.svc = make]]
    /\ cacheLock' = 0
    /\ purged' = {}
    /\ UNCHANGED nonCacheVars

\* The caller drops its future, or the handle the future returned.
FutureDrop(c) ==
    /\ fut[c].pc \in {"pending", "done"}
    /\ fut' = [fut EXCEPT ![c] = NoFuture]
    /\ purged' = {}
    /\ UNCHANGED <<cache, cacheLock, makes>>
    /\ UNCHANGED nonCacheVars

\* Time passes.
Tick ==
    /\ \E k \in Resident : cache[k].age <= MaxIdleAge
    /\ cache' = [k \in Keys |->
                    IF k \in Resident /\ cache[k].age <= MaxIdleAge
                    THEN [cache[k] EXCEPT !.age = @ + 1]
                    ELSE cache[k]]
    /\ purged' = {}
    /\ UNCHANGED <<cacheLock, fut, makes>>
    /\ UNCHANGED nonCacheVars

\* An entry the purge task would remove if it looked at the last access
\* alone.
IdleEntry(k) ==
    /\ k \in Resident
    /\ cache[k].age > MaxIdleAge

\* An entry the purge task may remove: idle for longer than max_idle_age and
\* referred to by the cache alone.
Evictable(k) ==
    /\ k \in Resident
    /\ cache[k].age > MaxIdleAge
    /\ \A c \in Callers : fut[c].svc # cache[k].svc

\* The purge task: under the cache lock, removes every evictable entry.
Purge ==
    /\ cacheLock = 0
    /\ \E k \in Keys : Evictable(k)
    /\ cache' = [k \in Keys |-> IF Evictable(k) THEN NoEntry ELSE cache[k]]
    /\ makes' = [k \in Keys |-> IF Evictable(k) THEN 0 ELSE makes[k]]
    /\ purged' = {k \in Keys : Evictable(k)}
    /\ UNCHANGED <<cacheLock, fut>>
    /\ UNCHANGED nonCacheVars

CacheNext ==
    \/ \E c \in Callers, k \in Keys : RouterCall(c, k)
    \/ \E c \in Callers : PollLock(c)
    \/ \E c \in Callers : ResponseFuturePoll(c)
    \/ \E c \in Callers : FutureDrop(c)
    \/ Tick
    \/ Purge


(***************************************************************************)
(*                              linkerd/buffer                             *)
(***************************************************************************)

\* Bounds of the buffer model.
NumSenders == 2
QueueCapacity == 2
MaxTokens == 3

Senders == 1..NumSenders
Tokens == 0..(MaxTokens - 1)
\* The daemon's task, in `notified`.
DaemonTask == 0

\* A Push handle: where its task stands and the result of its last
\* readiness poll.
NoPush == [st |-> "idle", res |-> "none"]
DroppedPush == [st |-> "dropped", res |-> "none"]
\* A PushFuture: `sent` once the daemon sent on its oneshot, `res` the result
\* of its last poll.
NoPushFuture == [st |-> "none", sent |-> FALSE, res |-> "none"]
DroppedPushFuture == [st |-> "dropped", sent |-> FALSE, res |-> "none"]

\* The daemon task is alive and owns its Pop handle.
DaemonAlive == pop \in {"running", "parked", "completing"}

\* Arc::strong_count(&inner): the Push handles, the PushFutures and the Pop.
strong_count ==
    Cardinality({s \in Senders : push[s].st # "dropped"})
    + Cardinality({t \in Tokens : pfut[t].st = "live"})
    + (IF DaemonAlive THEN 1 ELSE 0)

\* The tokens queued.
Queued == {in_flight[i] : i \in 1..Len(in_flight)}

\* IndexMap::swap_remove: the entry is removed and the last entry takes its place.
swap_remove(q, t) ==
    IF \A i \in 1..Len(q) : q[i] # t
    THEN q
    ELSE LET n == Len(q)
             i == CHOOSE j \in 1..n : q[j] = t
         IN IF i = n
            THEN SubSeq(q, 1, n - 1)
            ELSE [SubSeq(q, 1, n - 1) EXCEPT ![i] = q[n]]

\* IndexMap::pop: the entry removed is the last one of the map's order.
index_map_pop(q) == q[Len(q)]

\* The map without the entry index_map_pop removes.
index_map_rest(q) == swap_remove(q, index_map_pop(q))

BufferInit ==
    /\ in_flight = <<>>
    /\ next_token = 0
    /\ push_tasks = <<>>
    /\ pop_task = FALSE
    /\ push = [s \in Senders |-> NoPush]
    /\ pfut = [t \in Tokens |-> NoPushFuture]
    /\ pop = "running"
    /\ notified = {}
    /\ dispatched = <<>>

\* Push::poll_ready: ready while the queue holds fewer than `capacity`
\* requests; otherwise the task is parked in push_tasks.
PushPollReady(s) ==
    /\ push[s].st = "idle"
    /\ IF Len(in_flight) < QueueCapacity
       THEN /\ push' = [push EXCEPT ![s] = [st |-> "ready", res |-> "Ready"]]
            /\ UNCHANGED push_tasks
       ELSE /\ push_tasks' = Append(push_tasks, s)
            /\ push' = [push EXCEPT ![s] = [st |-> "waiting", res |-> "NotReady"]]
    /\ UNCHANGED <<in_flight, next_token, pop_task, pfut, pop, notified, dispatched>>
    /\ UNCHANGED nonBufferVars

\* Buffer::poll_ready: LostDaemon once the daemon's handle is gone, ready
\* while the buffer holds fewer than `capacity` requests, not ready otherwise.
BufferPollReady(s) ==
    /\ push[s].st = "idle"
    /\ IF ~DaemonAlive
       THEN push' = [push EXCEPT ![s] = [st |-> "idle", res |-> "LostDaemon"]]
       ELSE IF Len(in_flight) < QueueCapacity
       THEN push' = [push EXCEPT ![s] = [st |-> "ready", res |-> "Ready"]]
       ELSE push' = [push EXCEPT ![s] = [st |-> "idle", res |-> "NotReady"]]
    /\ UNCHANGED <<in_flight, next_token, push_tasks, pop_task, pfut, pop, notified, dispatched>>
    /\ UNCHANGED nonBufferVars

\* A parked sender's task is notified and will poll again.
PushWake(s) ==
    /\ push[s].st = "waiting"
    /\ s \in notified
    /\ notified' = notified \ {s}
    /\ push' = [push EXCEPT ![s].st = "idle"]
    /\ UNCHANGED <<in_flight, next_token, push_tasks, pop_task, pfut, pop, dispatched>>
    /\ UNCHANGED nonBufferVars

\* Push::push (reached through Buffer::call and the Push arm of
\* BufferFuture::poll): the request is queued under the next token, the
\* daemon's task is notified and the PushFuture is returned.
Push(s) ==
    /\ push[s].st = "ready"
    /\ next_token < MaxTokens
    /\ in_flight' = Append(in_flight, next_token)
    /\ pfut' = [pfut EXCEPT ![next_token] = [NoPushFuture EXCEPT !.st = "live"]]
    /\ next_token' = next_token + 1
    /\ pop_task' = FALSE
    /\ notified' = IF pop_task THEN notified \cup {DaemonTask} ELSE notified
    /\ push' = [push EXCEPT ![s].st = "idle"]
    /\ UNCHANGED <<push_tasks, pop, dispatched>>
    /\ UNCHANGED nonBufferVars

\* A Push handle is dropped (Push has no Drop of its own).
PushDrop(s) ==
    /\ push[s].st # "dropped"
    /\ push' = [push EXCEPT ![s] = DroppedPush]
    /\ notified' = notified \ {s}
    /\ UNCHANGED <<in_flight, next_token, push_tasks, pop_task, pfut, pop, dispatched>>
    /\ UNCHANGED nonBufferVars

\* PushFuture::poll (the InFlight arm of BufferFuture::poll): polls the
\* oneshot receiver, whose sender lives in the queued InFlight node; the
\* receiver fails only when that sender is dropped without sending, and the
\* node is owned by `inner`, which this future keeps alive.
PushFuturePoll(t) ==
    /\ pfut[t].st = "live"
    /\ pfut[t].res # "Ready"
    /\ pfut' = [pfut EXCEPT ![t] = [@ EXCEPT
                  !.res = IF pfut[t].sent THEN "Ready" ELSE "NotReady"]]
    /\ UNCHANGED <<in_flight, next_token, push_tasks, pop_task, push, pop, notified, dispatched>>
    /\ UNCHANGED nonBufferVars

\* A drop of the PushFuture that leaves its request in the queue.
PushFutureDropKeepsRequest(t) ==
    /\ pfut[t].st = "live"
    /\ pfut' = [pfut EXCEPT ![t] = DroppedPushFuture]
    /\ UNCHANGED <<in_flight, next_token, push_tasks, pop_task, push, pop, notified, dispatched>>
    /\ UNCHANGED nonBufferVars

\* PushFuture::drop: the token is removed from the queue; when only this
\* future and one other handle remain the daemon's task is notified,
\* otherwise every parked sender is.
PushFutureDrop(t) ==
    /\ pfut[t].st = "live"
    /\ in_flight' = swap_remove(in_flight, t)
    /\ pfut' = [pfut EXCEPT ![t] = DroppedPushFuture]
    /\ IF strong_count = 2
       THEN /\ pop_task' = FALSE
            /\ notified' = IF pop_task THEN notified \cup {DaemonTask} ELSE notified
            /\ UNCHANGED push_tasks
       ELSE /\ push_tasks' = <<>>
            /\ notified' = notified \cup {push_tasks[i] : i \in 1..Len(push_tasks)}
            /\ UNCHANGED pop_task
    /\ UNCHANGED <<next_token, push, pop, dispatched>>
    /\ UNCHANGED nonBufferVars

\* Pop::poll_pop, and the daemon's dispatch of the node it returns: the
\* request goes to the inner service and the response future is sent on the
\* node's oneshot. With nothing queued the daemon's task is parked.
PopPollPop ==
    /\ pop = "running"
    /\ IF in_flight # <<>>
       THEN /\ in_flight' = index_map_rest(in_flight)
            /\ dispatched' = Append(dispatched, index_map_pop(in_flight))
            /\ pfut' = [pfut EXCEPT ![index_map_pop(in_flight)].sent = TRUE]
            /\ UNCHANGED <<pop_task, pop>>
       ELSE /\ pop_task' = TRUE
            /\ pop' = "parked"
            /\ UNCHANGED <<in_flight, dispatched, pfut>>
    /\ UNCHANGED <<next_token, push_tasks, push, notified>>
    /\ UNCHANGED nonBufferVars

\* Pop::poll_complete: ready when the Pop is the only handle left, and the
\* daemon then finishes; otherwise the daemon's task is parked ("completing"
\* tells this from the daemon parked in poll_pop).
PopPollComplete ==
    /\ pop = "running"
    /\ IF strong_count = 1
       THEN /\ pop' = "done"
            /\ UNCHANGED pop_task
       ELSE /\ pop_task' = TRUE
            /\ pop' = "completing"
    /\ UNCHANGED <<in_flight, next_token, push_tasks, push, pfut, notified, dispatched>>
    /\ UNCHANGED nonBufferVars

\* The parked daemon's task is notified and will poll again.
PopWake ==
    /\ pop \in {"parked", "completing"}
    /\ DaemonTask \in notified
    /\ notified' = notified \ {DaemonTask}
    /\ pop' = "running"
    /\ UNCHANGED <<in_flight, next_token, push_tasks, pop_task, push, pfut, dispatched>>
    /\ UNCHANGED nonBufferVars

\* The daemon task goes away (it is dropped, or its inner service failed):
\* the Pop handle is dropped; Pop has no Drop of its own.
PopDrop ==
    /\ DaemonAlive
    /\ pop' = "dropped"
    /\ UNCHANGED <<in_flight, next_token, push_tasks, pop_task, push, pfut, notified, dispatched>>
    /\ UNCHANGED nonBufferVars

BufferNext ==
    \/ \E s \in Senders : PushPollReady(s)
    \/ \E s \in Senders : BufferPollReady(s)
    \/ \E s \in Senders : PushWake(s)
    \/ \E s \in Senders : Push(s)
    \/ \E s \in Senders : PushDrop(s)
    \/ \E t \in Tokens : PushFuturePoll(t)
    \/ \E t \in Tokens : PushFutureDrop(t)
    \/ PopPollPop
    \/ PopPollComplete
    \/ PopWake
    \/ PopDrop

(***************************************************************************)
(*                            admission layers                             *)
(***************************************************************************)

\* Bounds of the admission model: the clients, each holding a clone of the
\* admitted service, and max_in_flight_requests.
NumClients == 4
MaxInFlight == 2

Clients == 1..NumClients

\* A client's clone of the admitted service: `permit` is the permit the
\* clone of the concurrency limit holds, `is_ready` the flag of the clone of
\* the load shed, `held` the permit owned by the response future in flight.
NoAdmit == [st |-> "idle", permit |-> FALSE, is_ready |-> FALSE, held |-> FALSE]

\* http_admit_request with the two pushes exchanged: the concurrency limit
\* over the load shed.
http_admit_request_limit_outside == <<"load_shed", "concurrency_limit">>

\* http_admit_request: svc::layers().push_oneshot()
\* .push_concurrency_limit(max_in_flight_requests).push_load_shed(), listed
\* as Layers::push composes them, innermost first. (The oneshot at the
\* bottom is the inner service here: it is always ready.)
http_admit_request == <<"concurrency_limit", "load_shed">>

\* The requests in flight inside the concurrency limit.
InFlight == {c \in Clients : adm[c].st = "inflight"}

\* The permits of the semaphore that are taken, by a clone or by a future.
PermitsTaken == Cardinality({c \in Clients : adm[c].permit \/ adm[c].held})

\* poll_ready of the stack of layers L[1..i] for the clone a: the result and
\* the clone afterwards.
\*  - ConcurrencyLimit::poll_ready acquires a permit of the shared semaphore
\*    (not ready when none is left), then polls the inner service;
\*  - LoadShed::poll_ready stores the inner readiness in is_ready and always
\*    reports ready.
RECURSIVE StackPollReady(_, _, _)
StackPollReady(L, i, a) ==
    IF i = 0
    THEN [rdy |-> TRUE, a |-> a]
    ELSE IF L[i] = "concurrency_limit"
    THEN IF a.permit \/ PermitsTaken < MaxInFlight
         THEN StackPollReady(L, i - 1, [a EXCEPT !.permit = TRUE])
         ELSE [rdy |-> FALSE, a |-> a]
    ELSE LET r == StackPollReady(L, i - 1, a)
         IN [rdy |-> TRUE, a |-> [r.a EXCEPT !.is_ready = r.rdy]]

\* call of the stack of layers L[1..i] for the clone a: whether the request
\* reaches the inner service, and the clone afterwards.
\*  - ConcurrencyLimit::call calls the inner service and hands its permit to
\*    the response future;
\*  - LoadShed::call calls the inner service when is_ready (resetting it),
\*    and otherwise returns an Overloaded failure without calling it.
RECURSIVE StackCall(_, _, _)
StackCall(L, i, a) ==
    IF i = 0
    THEN [out |-> "inner", a |-> a]
    ELSE IF L[i] = "concurrency_limit"
    THEN StackCall(L, i - 1, [a EXCEPT !.permit = FALSE, !.held = a.permit])
    ELSE IF a.is_ready
         THEN StackCall(L, i - 1, [a EXCEPT !.is_ready = FALSE])
         ELSE [out |-> "overloaded", a |-> a]

AdmitInit ==
    /\ adm = [c \in Clients |-> NoAdmit]
    /\ reached = {}

\* Service::poll_ready of the admitted stack, for a client's clone.
AdmitPollReady(c) ==
    /\ adm[c].st \in {"idle", "notready"}
    /\ LET r == StackPollReady(http_admit_request, Len(http_admit_request), adm[c])
       IN adm' = [adm EXCEPT ![c] = [r.a EXCEPT !.st = IF r.rdy THEN "ready" ELSE "notready"]]
    /\ UNCHANGED reached
    /\ UNCHANGED nonAdmitVars

\* Service::call of the admitted stack, made after poll_ready reported ready.
AdmitCall(c) ==
    /\ adm[c].st = "ready"
    /\ LET r == StackCall(http_admit_request, Len(http_admit_request), adm[c])
       IN /\ adm' = [adm EXCEPT ![c] = [r.a EXCEPT !.st = IF r.out = "inner" THEN "inflight" ELSE "overloaded"]]
          /\ reached' = IF r.out = "inner" THEN reached \cup {c} ELSE reached
    /\ UNCHANGED nonAdmitVars

\* The response future completes or is dropped, and the clone with it: the
\* permits they hold return to the semaphore.
AdmitDone(c) ==
    /\ adm[c].st \in {"inflight", "overloaded"}
    /\ adm' = [adm EXCEPT ![c] = NoAdmit]
    /\ reached' = reached \ {c}
    /\ UNCHANGED nonAdmitVars

\* A clone is dropped before it was called: its permit returns to the
\* semaphore.
AdmitDrop(c) ==
    /\ adm[c].st \in {"ready", "notready"}
    /\ adm' = [adm EXCEPT ![c] = NoAdmit]
    /\ UNCHANGED reached
    /\ UNCHANGED nonAdmitVars

AdmitNext ==
    \/ \E c \in Clients : AdmitPollReady(c)
    \/ \E c \in Clients : AdmitCall(c)
    \/ \E c \in Clients : AdmitDone(c)
    \/ \E c \in Clients : AdmitDrop(c)

(***************************************************************************)
(*                                  retry                                  *)
(***************************************************************************)

\* Bounds of the retry model: the requests of one route, and the route's
\* budget: the credit it starts with (its reserve), what a deposit adds and
\* what a withdrawal takes.
NumRequests == 2
Reserve == 4
DepositAmount == 1
WithdrawAmount == 2

Requests == 1..NumRequests
\* What the inner service answers: a response classified as a success, a
\* response classified as a failure, or a transport error.
Results == {"success", "failure", "error"}

\* A request through the retry layer: `policy` whether its route has a retry
\* policy, `clonable` whether its body can be cloned, `clone` whether the
\* retry future holds a clone of it, `attempts` the calls of the inner
\* service made for it, `wd` the withdrawals that succeeded for it, `res`
\* the last result (the one returned once `st` is "done").
NoRequest == [st |-> "idle", policy |-> FALSE, clonable |-> FALSE, clone |-> FALSE,
              attempts |-> 0, wd |-> 0, res |-> "none"]

\* Budget::withdraw succeeds while the credit covers a withdrawal.
can_withdraw == credit >= WithdrawAmount

\* clone_request that gives a clone whether or not the body can be cloned.
always_clone_request(req) == TRUE

\* Policy::clone_request, through CloneRequest and TryClone for Request: a
\* clone exists exactly when the body can be cloned.
clone_request(req) == req.clonable

\* Retryability of a result (dst.rs, Retry::retryability): a transport error
\* and a response classified as a success are not retryable; a response
\* classified as a failure is retryable when the withdrawal succeeds.
retryability(result) ==
    IF result # "failure" THEN "NotRetryable"
    ELSE IF ~can_withdraw THEN "Exhausted"
    ELSE "Retryable"

\* Retry::retry that treats a transport error like a failure response.
retry_transport_errors(req, result) ==
    IF result = "success"
    THEN [again |-> FALSE, credit |-> credit + DepositAmount, ops |-> <<"deposit">>]
    ELSE IF can_withdraw
    THEN [again |-> TRUE, credit |-> credit - WithdrawAmount, ops |-> <<"withdraw">>]
    ELSE [again |-> FALSE, credit |-> credit, ops |-> <<"withdraw">>]

\* Retry::retry that never asks for a retry: every result ends the request
\* with a deposit.
retry_never(req, result) ==
    [again |-> FALSE, credit |-> credit + DepositAmount, ops |-> <<"deposit">>]

\* Retry::retry that ignores the outcome of the withdrawal.
retry_ignores_budget(req, result) ==
    IF result # "failure"
    THEN [again |-> FALSE, credit |-> credit + DepositAmount, ops |-> <<"deposit">>]
    ELSE IF can_withdraw
    THEN [again |-> TRUE, credit |-> credit - WithdrawAmount, ops |-> <<"withdraw">>]
    ELSE [again |-> TRUE, credit |-> credit, ops |-> <<"withdraw">>]

\* Retry::retry that gives back to the budget when a response cannot be
\* retried for lack of credit.
retry_deposits_when_exhausted(req, result) ==
    IF result # "failure"
    THEN [again |-> FALSE, credit |-> credit + DepositAmount, ops |-> <<"deposit">>]
    ELSE IF can_withdraw
    THEN [again |-> TRUE, credit |-> credit - WithdrawAmount, ops |-> <<"withdraw">>]
    ELSE [again |-> FALSE, credit |-> credit + DepositAmount, ops |-> <<"withdraw", "deposit">>]

\* Retry::retry (app/core/src/retry.rs): a result that is not retryable
\* deposits and ends the request; a retryable one withdraws, and the request
\* is retried, under a clone of this same policy, when the withdrawal
\* succeeded. `ops` lists the calls made on the budget, in order.
retry(req, result) ==
    IF result # "failure"
    THEN [again |-> FALSE, credit |-> credit + DepositAmount, ops |-> <<"deposit">>]
    ELSE IF can_withdraw
    THEN [again |-> TRUE, credit |-> credit - WithdrawAmount, ops |-> <<"withdraw">>]
    ELSE [again |-> FALSE, credit |-> credit, ops |-> <<"withdraw">>]

\* The retries issued so far for the requests 1..n: every attempt of a
\* request after its first.
RECURSIVE retries_issued(_)
retries_issued(n) ==
    IF n = 0 THEN 0
    ELSE (IF rq[n].attempts > 0 THEN rq[n].attempts - 1 ELSE 0) + retries_issued(n - 1)

RetryInit ==
    /\ credit = Reserve
    /\ budget_ops = <<>>
    /\ rq = [q \in Requests |-> NoRequest]
    /\ backend = <<>>
    /\ deposited = 0
    /\ withdrawn = 0

\* Retry::proxy: with a policy the request goes through tower's Retry, which
\* keeps a clone of the request when clone_request gives one and calls the
\* inner service; without a policy the inner proxy is called directly.
RetryProxy(q, policy, clonable) ==
    /\ rq[q].st = "idle"
    /\ rq' = [rq EXCEPT ![q] =
                [st |-> "called", policy |-> policy, clonable |-> clonable,
                 clone |-> policy /\ clone_request([clonable |-> clonable]),
                 attempts |-> 1, wd |-> 0, res |-> "none"]]
    /\ UNCHANGED <<credit, budget_ops, backend, deposited, withdrawn>>
    /\ UNCHANGED nonRetryVars

\* ResponseFuture::poll once the inner service answered (the poll of tower's
\* retry future): when a clone of the request is held the policy is asked;
\* if it says retry, the clone is sent to the inner service, and a clone of
\* the clone is kept for the answer to come; otherwise the result is
\* returned. Without a clone the result is returned without asking.
RetryPoll(q, result) ==
    /\ rq[q].st = "called"
    /\ backend' = Append(backend, [req |-> q, res |-> result])
    /\ IF rq[q].clone
       THEN LET r == retry(rq[q], result)
            IN /\ credit' = r.credit
               /\ budget_ops' = r.ops
               /\ deposited' = deposited + Cardinality({i \in 1..Len(r.ops) : r.ops[i] = "deposit"})
               /\ withdrawn' = withdrawn + (IF r.credit < credit THEN 1 ELSE 0)
               /\ IF r.again
                  THEN rq' = [rq EXCEPT ![q] = [@ EXCEPT
                                !.attempts = @ + 1,
                                !.wd = @ + 1,
                                !.clone = clone_request(rq[q]),
                                !.res = result]]
                  ELSE rq' = [rq EXCEPT ![q] = [@ EXCEPT !.st = "done", !.res = result]]
       ELSE /\ rq' = [rq EXCEPT ![q] = [@ EXCEPT !.st = "done", !.res = result]]
            /\ UNCHANGED <<credit, budget_ops, deposited, withdrawn>>
    /\ UNCHANGED nonRetryVars

RetryNext ==
    \/ \E q \in Requests, policy \in BOOLEAN, clonable \in BOOLEAN : RetryProxy(q, policy, clonable)
    \/ \E q \in Requests, result \in Results : RetryPoll(q, result)

(***************************************************************************)
(*                               linkerd/lock                              *)
(***************************************************************************)

\* Bounds of the lock model: the clones of one Lock, and the distinct errors
\* the inner service's poll_ready can fail with.
NumClones == 3
NumErrors == 2

Clones == 1..NumClones
InnerErrors == 1..NumErrors

\* What the inner service's poll_ready answers: Ok(Ready), Ok(NotReady) or
\* Err(e).
InnerPolls ==
    {[res |-> "Ready", err |-> 0], [res |-> "NotReady", err |-> 0]}
        \cup {[res |-> "Err", err |-> e] : e \in InnerErrors}

\* No error.
NoError == <<"none", 0>>

\* State::Service(S): the inner service is in the lock.
StateService == [kind |-> "Service", err |-> NoError]

\* E::from(err.into()) for Poisoned: the error kept, and handed out, in place
\* of the inner service's error e.
Poisoned(e) == <<"Poisoned", e>>

\* State::Error(E).
StateError(e) == [kind |-> "Error", err |-> Poisoned(e)]

\* A clone of the Lock: `locked` whether it owns the guard, `res` the result
\* of its latest poll_ready ("none" before any, and after a call), `err` the
\* error that poll_ready returned.
NoLock == [locked |-> FALSE, res |-> "none", err |-> NoError]

\* poll_lock that hands out the guard whether or not another clone owns it.
poll_lock_unguarded == TRUE

\* self.lock.poll_lock(): Ready exactly when no guard is out.
poll_lock == lock_holder = 0

LockInit ==
    /\ lock_state = StateService
    /\ lock_holder = 0
    /\ lk = [c \in Clones |-> NoLock]
    /\ inner_op = [by |-> 0, op |-> "none"]
    /\ lock_freed = 0

\* Lock::poll_ready where the failure of the inner service is returned but
\* not stored: the guard is released and the service stays in the lock.
PollInnerForgetsError(c, inner) ==
    /\ inner_op' = [by |-> c, op |-> "poll_ready"]
    /\ lock_state' = lock_state
    /\ IF inner.res = "Err"
       THEN /\ lock_holder' = 0
            /\ lk' = [lk EXCEPT ![c] = [locked |-> FALSE, res |-> "Err", err |-> Poisoned(inner.err)]]
       ELSE /\ lock_holder' = c
            /\ lk' = [lk EXCEPT ![c] = [locked |-> TRUE, res |-> inner.res, err |-> NoError]]

\* Lock::poll_ready where the guard stays in self.locked after the failure
\* of the inner service was stored.
PollInnerKeepsGuard(c, inner) ==
    /\ inner_op' = [by |-> c, op |-> "poll_ready"]
    /\ lock_state' = IF inner.res = "Err" THEN StateError(inner.err) ELSE lock_state
    /\ lock_holder' = c
    /\ lk' = [lk EXCEPT ![c] =
                IF inner.res = "Err"
                THEN [locked |-> TRUE, res |-> "Err", err |-> Poisoned(inner.err)]
                ELSE [locked |-> TRUE, res |-> inner.res, err |-> NoError]]

\* The part of Lock::poll_ready that runs with the guard in self.locked: the
\* inner service is polled; its failure is stored in the shared state, the
\* guard is released and the error returned.
PollInner(c, inner) ==
    /\ inner_op' = [by |-> c, op |-> "poll_ready"]
    /\ IF inner.res = "Err"
       THEN /\ lock_state' = StateError(inner.err)
            /\ lock_holder' = 0
            /\ lk' = [lk EXCEPT ![c] = [locked |-> FALSE, res |-> "Err", err |-> Poisoned(inner.err)]]
       ELSE /\ lock_state' = lock_state
            /\ lock_holder' = c
            /\ lk' = [lk EXCEPT ![c] = [locked |-> TRUE, res |-> inner.res, err |-> NoError]]

\* Lock::poll_ready. `inner` is what the inner service's poll_ready would
\* answer, one of InnerPolls.
LockPollReady(c, inner) ==
    /\ IF lk[c].locked /\ lock_state.kind = "Service"
       THEN PollInner(c, inner)
       ELSE IF lk[c].locked
       THEN /\ lk' = [lk EXCEPT ![c].res = "must not lock on error"]
            /\ inner_op' = [by |-> c, op |-> "none"]
            /\ UNCHANGED <<lock_state, lock_holder>>
       ELSE IF ~poll_lock
       THEN /\ lk' = [lk EXCEPT ![c] = [locked |-> FALSE, res |-> "NotReady", err |-> NoError]]
            /\ inner_op' = [by |-> c, op |-> "none"]
            /\ UNCHANGED <<lock_state, lock_holder>>
       ELSE IF lock_state.kind = "Error"
       THEN /\ lk' = [lk EXCEPT ![c] = [locked |-> FALSE, res |-> "Err", err |-> lock_state.err]]
            /\ inner_op' = [by |-> c, op |-> "none"]
            /\ UNCHANGED <<lock_state, lock_holder>>
       ELSE PollInner(c, inner)
    /\ UNCHANGED lock_freed
    /\ UNCHANGED nonLockVars

\* Lock::call, made after poll_ready returned Ready: the guard is taken out
\* of the clone, the inner service is called, and the guard is dropped.
\* Without a guard, or with an error in the lock, the call panics.
LockCall(c) ==
    /\ lk[c].res = "Ready"
    /\ IF lk[c].locked /\ lock_state.kind = "Service"
       THEN /\ lk' = [lk EXCEPT ![c] = NoLock]
            /\ inner_op' = [by |-> c, op |-> "call"]
       ELSE /\ lk' = [lk EXCEPT ![c] = [locked |-> FALSE, res |-> "called before ready",
                                        err |-> NoError]]
            /\ inner_op' = [by |-> c, op |-> "none"]
    /\ lock_holder' = IF lock_holder = c THEN 0 ELSE lock_holder
    /\ lock_freed' = 0
    /\ UNCHANGED lock_state
    /\ UNCHANGED nonLockVars

\* A clone is dropped and its guard stays out.
LockCloneKeepsGuard(c) ==
    /\ lk[c] # NoLock
    /\ lk' = [lk EXCEPT ![c] = NoLock]
    /\ lock_holder' = lock_holder
    /\ inner_op' = [by |-> c, op |-> "none"]
    /\ lock_freed' = IF lk[c].locked /\ lock_holder = c THEN c ELSE 0
    /\ UNCHANGED lock_state
    /\ UNCHANGED nonLockVars

\* A clone is dropped, which drops the guard it owns, and Lock::clone makes
\* another in its place, with no guard.
LockClone(c) ==
    /\ lk[c] # NoLock
    /\ lk' = [lk EXCEPT ![c] = NoLock]
    /\ lock_holder' = IF lk[c].locked /\ lock_holder = c THEN 0 ELSE lock_holder
    /\ inner_op' = [by |-> c, op |-> "none"]
    /\ lock_freed' = IF lk[c].locked /\ lock_holder = c THEN c ELSE 0
    /\ UNCHANGED lock_state
    /\ UNCHANGED nonLockVars

LockNext ==
    \/ \E c \in Clones, inner \in InnerPolls : LockPollReady(c, inner)
    \/ \E c \in Clones : LockCall(c)
    \/ \E c \in Clones : LockClone(c)

(***************************************************************************)
(*                             linkerd/fallback                            *)
(***************************************************************************)

\* Bounds of the fallback model: the callers of the MakeSvc (one MakeFuture
\* each) and the targets they ask for.
NumMakers == 1
NumTargets == 6

Makers == 1..NumMakers
Targets == 1..NumTargets

\* The errors a maker can fail with, by type and variant: the two variants of
\* LogicalError, the DiscoveryRejected struct itself, and any other error.
MakeErrors ==
    {<<"LogicalError", "DiscoveryRejected">>, <<"LogicalError", "Inner">>,
     <<"DiscoveryRejected", "">>, <<"Other", "">>}

\* What a poll of a maker's future, or of a maker's readiness, answers.
MakePolls ==
    {[res |-> "Ready", err |-> NoError], [res |-> "NotReady", err |-> NoError]}
        \cup {[res |-> "Err", err |-> e] : e \in MakeErrors}

\* LogicalError::is_discovery_rejected: the error downcasts to a LogicalError
\* and is its DiscoveryRejected variant.
is_discovery_rejected(err) == err = <<"LogicalError", "DiscoveryRejected">>

\* The predicate of fallback::layer as it is built: every error matches.
predicate_of_layer(err) == TRUE

\* The predicate of the outbound stack's fallback layer:
\* with_predicate(LogicalError::is_discovery_rejected).
predicate(err) == is_discovery_rejected(err)

\* A MakeFuture: `st` its FallbackState ("idle" before MakeSvc::call, "done"
\* once it returned Ready or Err), `target` the target it keeps, `res` what
\* it returned last ("A" and "B" are the sides of the Either), `err` the
\* error it returned. For the record: `primary` and `fallback` are the
\* targets the two makers were invoked with (0: not invoked), `perr` the
\* error of the primary's future, `polled` whether the fallback's readiness
\* was polled, `fready` whether it answered ready, `invoked` how many times
\* the fallback maker was invoked, `ferr` the error of the fallback's future.
NoMakeFuture ==
    [st |-> "idle", target |-> 0, res |-> "none", err |-> NoError,
     primary |-> 0, fallback |-> 0, perr |-> NoError, polled |-> FALSE,
     fready |-> FALSE, invoked |-> 0, ferr |-> NoError]

FallbackInit == mkf = [f \in Makers |-> NoMakeFuture]

\* MakeSvc::call: the primary maker is invoked with the target; the future
\* keeps a clone of the target.
MakeSvcCall(f, t) ==
    /\ mkf[f].st = "idle"
    /\ mkf' = [mkf EXCEPT ![f] = [NoMakeFuture EXCEPT
                 !.st = "Primary", !.target = t, !.primary = t]]
    /\ UNCHANGED nonFallbackVars

\* MakeFuture::poll in FallbackState::Fallback: the fallback's future is
\* polled and its answer returned, a service as Either::B.
poll_fallback(m, b) ==
    IF b.res = "NotReady" THEN [m EXCEPT !.st = "Fallback", !.res = "NotReady"]
    ELSE IF b.res = "Ready" THEN [m EXCEPT !.st = "done", !.res = "B"]
    ELSE [m EXCEPT !.st = "done", !.res = "Err", !.err = b.err, !.ferr = b.err]

\* MakeFuture::poll in FallbackState::Waiting invoking the fallback maker
\* without waiting for it to be ready.
poll_waiting_unready(m, r, b) ==
    IF r.res = "Err" THEN [m EXCEPT !.st = "done", !.res = "Err", !.err = r.err, !.polled = TRUE]
    ELSE poll_fallback([m EXCEPT !.polled = TRUE, !.fready = (r.res = "Ready"),
                                 !.fallback = m.target, !.target = 0,
                                 !.invoked = @ + 1], b)

\* MakeFuture::poll in FallbackState::Waiting: once the fallback maker is
\* ready it is invoked with the target taken from the state.
poll_waiting(m, r, b) ==
    IF r.res = "NotReady" THEN [m EXCEPT !.st = "Waiting", !.res = "NotReady", !.polled = TRUE]
    ELSE IF r.res = "Err" THEN [m EXCEPT !.st = "done", !.res = "Err", !.err = r.err, !.polled = TRUE]
    ELSE poll_fallback([m EXCEPT !.polled = TRUE, !.fready = TRUE,
                                 !.fallback = m.target, !.target = 0,
                                 !.invoked = @ + 1], b)

\* MakeFuture::poll in FallbackState::Primary: a service of the primary is
\* returned as Either::A; an error that matches the predicate moves to
\* Waiting, any other error is returned.
poll_primary(m, a, r, b) ==
    IF a.res = "NotReady" THEN [m EXCEPT !.res = "NotReady"]
    ELSE IF a.res = "Ready" THEN [m EXCEPT !.st = "done", !.res = "A"]
    ELSE IF predicate(a.err) THEN poll_waiting([m EXCEPT !.perr = a.err], r, b)
    ELSE [m EXCEPT !.st = "done", !.res = "Err", !.err = a.err, !.perr = a.err]

\* An answer this poll does not ask for.
NotAsked == [res |-> "NotReady", err |-> NoError]

\* MakeFuture::poll. `a`, `r` and `b` are what the primary's future, the
\* fallback's poll_ready and the fallback's future answer if this poll asks
\* them; an answer it does not ask for is NotAsked.
MakeFuturePoll(f, a, r, b) ==
    /\ mkf[f].st \in {"Primary", "Waiting", "Fallback"}
    /\ mkf[f].st # "Primary" => a = NotAsked
    /\ (mkf[f].st = "Fallback" \/ (mkf[f].st = "Primary" /\ ~(a.res = "Err" /\ predicate(a.err))))
       => r = NotAsked
    /\ (mkf[f].st # "Fallback" /\ r.res # "Ready") => b = NotAsked
    /\ mkf' = [mkf EXCEPT ![f] =
                 CASE mkf[f].st = "Primary" -> poll_primary(mkf[f], a, r, b)
                   [] mkf[f].st = "Waiting" -> poll_waiting(mkf[f], r, b)
                   [] mkf[f].st = "Fallback" -> poll_fallback(mkf[f], b)]
    /\ UNCHANGED nonFallbackVars

\* The caller drops its MakeFuture, pending or done.
MakeFutureDrop(f) ==
    /\ mkf[f].st # "idle"
    /\ mkf' = [mkf EXCEPT ![f] = NoMakeFuture]
    /\ UNCHANGED nonFallbackVars

FallbackNext ==
    \/ \E f \in Makers, t \in Targets : MakeSvcCall(f, t)
    \/ \E f \in Makers, a \in MakePolls, r \in MakePolls, b \in MakePolls : MakeFuturePoll(f, a, r, b)
    \/ \E f \in Makers : MakeFutureDrop(f)

(***************************************************************************)
(*                              linkerd/router                             *)
(***************************************************************************)

\* Bounds of the router model: the callers of the router (one ResponseFuture
\* each) and the destination names a request can carry.
NumRouted == 1
NumNames == 7

Routed == 1..NumRouted
\* A request, by the destination it names; 0 names none (none of the headers,
\* authority, host or original destination gives a name).
RoutedRequests == 0..NumNames

\* The errors of the inner maker and of the services it gives.
RouterErrors == {<<"NoCapacity", "">>, <<"Inner", "make">>, <<"Inner", "service">>}

\* What a poll of the maker's future, of the service's readiness, or of the
\* service's response future answers.
RouterPolls ==
    {[res |-> "Ready", err |-> NoError], [res |-> "NotReady", err |-> NoError]}
        \cup {[res |-> "Err", err |-> e] : e \in RouterErrors}

\* Target::target, as RequestTarget implements it: every request gets a
\* target; one that names no destination gets a target without a name, keyed
\* by the address the connection was accepted for.
target(req) == [dst_name |-> req, addr |-> "target_addr"]

\* A router ResponseFuture: `st` its Inner ("idle" before Service::call,
\* "done" once it returned Ready or Err), `req` the request, `key` the target
\* the maker was invoked with, `res` and `err` what it returned last. For the
\* record: `made` whether the maker was invoked, `svc` the target of the
\* service obtained, `ready` whether that service reported ready, `calls` the
\* calls made on it, `merr` the error of the maker's future.
NoKey == [dst_name |-> 0, addr |-> "none"]
NoResponseFuture ==
    [st |-> "idle", req |-> 0, key |-> NoKey, res |-> "none", err |-> NoError,
     made |-> FALSE, svc |-> NoKey, ready |-> FALSE, calls |-> 0, merr |-> NoError]

RouterInit == rtf = [r \in Routed |-> NoResponseFuture]

\* Service::call: the target is extracted from the request and the maker is
\* invoked with it; the future keeps the request.
RouterServiceCall(r, req) ==
    /\ rtf[r].st = "idle"
    /\ rtf' = [rtf EXCEPT ![r] = [NoResponseFuture EXCEPT
                 !.st = "Make", !.req = req, !.key = target(req), !.made = TRUE]]
    /\ UNCHANGED nonRouterVars

\* ResponseFuture::poll in Inner::Respond: the response future is polled and
\* its answer returned.
poll_respond(f, p) ==
    IF p.res = "NotReady" THEN [f EXCEPT !.st = "Respond", !.res = "NotReady"]
    ELSE IF p.res = "Ready" THEN [f EXCEPT !.st = "done", !.res = "Ok"]
    ELSE [f EXCEPT !.st = "done", !.res = "Err", !.err = p.err]

\* ResponseFuture::poll in Inner::Ready where the service is called without
\* asking whether it is ready.
poll_service_ready_skipped(f, y, p) ==
    poll_respond([f EXCEPT !.calls = @ + 1], p)

\* ResponseFuture::poll in Inner::Ready: the service's readiness is polled;
\* once it is ready the request is taken and the service called with it.
poll_service_ready(f, y, p) ==
    IF y.res = "NotReady" THEN [f EXCEPT !.st = "Ready", !.res = "NotReady"]
    ELSE IF y.res = "Err" THEN [f EXCEPT !.st = "done", !.res = "Err", !.err = y.err]
    ELSE poll_respond([f EXCEPT !.ready = TRUE, !.calls = @ + 1], p)

\* ResponseFuture::poll in Inner::Make where a failure of the maker is
\* answered by a service for the target without a name.
poll_make_recovers(f, m, y, p) ==
    IF m.res = "NotReady" THEN [f EXCEPT !.res = "NotReady"]
    ELSE IF m.res = "Err" THEN poll_service_ready([f EXCEPT !.merr = m.err, !.svc = target(0)], y, p)
    ELSE poll_service_ready([f EXCEPT !.svc = f.key], y, p)

\* ResponseFuture::poll in Inner::Make: the maker's future is polled; its
\* error is returned, its service kept with the request.
poll_make(f, m, y, p) ==
    IF m.res = "NotReady" THEN [f EXCEPT !.res = "NotReady"]
    ELSE IF m.res = "Err" THEN [f EXCEPT !.st = "done", !.res = "Err", !.err = m.err, !.merr = m.err]
    ELSE poll_service_ready([f EXCEPT !.svc = f.key], y, p)

\* ResponseFuture::poll. `m`, `y` and `p` are what the maker's future, the
\* service's poll_ready and the response future answer if this poll asks
\* them; an answer it does not ask for is NotAsked.
RouterFuturePoll(r, m, y, p) ==
    /\ rtf[r].st \in {"Make", "Ready", "Respond"}
    /\ rtf[r].st # "Make" => m = NotAsked
    /\ (rtf[r].st = "Respond" \/ (rtf[r].st = "Make" /\ m.res # "Ready")) => y = NotAsked
    /\ (rtf[r].st # "Respond" /\ y.res # "Ready") => p = NotAsked
    /\ rtf' = [rtf EXCEPT ![r] =
                 CASE rtf[r].st = "Make" -> poll_make(rtf[r], m, y, p)
                   [] rtf[r].st = "Ready" -> poll_service_ready(rtf[r], y, p)
                   [] rtf[r].st = "Respond" -> poll_respond(rtf[r], p)]
    /\ UNCHANGED nonRouterVars

\* The caller drops its ResponseFuture, pending or done.
RouterFutureDrop(r) ==
    /\ rtf[r].st # "idle"
    /\ rtf' = [rtf EXCEPT ![r] = NoResponseFuture]
    /\ UNCHANGED nonRouterVars

RouterNext ==
    \/ \E r \in Routed, req \in RoutedRequests : RouterServiceCall(r, req)
    \/ \E r \in Routed, m \in RouterPolls, y \in RouterPolls, p \in RouterPolls :
          RouterFuturePoll(r, m, y, p)
    \/ \E r \in Routed : RouterFutureDrop(r)

(***************************************************************************)
(*                      profiles: per-request routes                       *)
(***************************************************************************)

\* Bounds of the routes model: the kinds of request told apart by the match
\* conditions, the configured routes, and the length of the route list.
NumRequestKinds == 2
NumRoutes == 2
MaxRoutes == 2

RequestKinds == 1..NumRequestKinds
\* The route proxies, by the route they were made for; DefaultRoute is the
\* one made for the default route in Requests::new.
DefaultRoute == 0
ConfiguredRoutes == 1..NumRoutes

\* A match condition, by the kinds of request it holds for.
RequestMatches == SUBSET RequestKinds

\* RequestMatch::is_match.
is_match(condition, req) == req \in condition

\* The route lists set_routes can be given.
RouteLists ==
    UNION {[1..n -> [condition : RequestMatches, route : ConfiguredRoutes]] : n \in 0..MaxRoutes}

\* No request proxied (through the present list) yet.
NoProxied == [req |-> 0, via |-> <<>>]

\* Requests::new: no routes but the default.
RequestsInit ==
    /\ routes = <<>>
    /\ proxied = NoProxied

\* Requests::set_routes: a proxy is made for each route of the list, in the
\* order of the list.
set_routes(list) ==
    [i \in 1..Len(list) |-> [condition |-> list[i].condition, route |-> list[i].route]]

\* A Requests after set_routes with any of the lists.
RequestsWithRoutes ==
    /\ routes \in {set_routes(list) : list \in RouteLists}
    /\ proxied = NoProxied

\* Requests::proxy without the return in the loop: the request goes through
\* every route that matches and then through the default route.
RECURSIVE proxy_without_return(_, _, _)
proxy_without_return(rs, i, req) ==
    IF i > Len(rs) THEN <<DefaultRoute>>
    ELSE IF is_match(rs[i].condition, req)
    THEN <<rs[i].route>> \o proxy_without_return(rs, i + 1, req)
    ELSE proxy_without_return(rs, i + 1, req)

\* Requests::proxy, from the i-th route on: the proxies the request is given
\* to, in order. The scan returns at the first route whose condition
\* matches; past the end of the list the default route is used.
RECURSIVE proxy(_, _, _)
proxy(rs, i, req) ==
    IF i > Len(rs) THEN <<DefaultRoute>>
    ELSE IF is_match(rs[i].condition, req) THEN <<rs[i].route>>
    ELSE proxy(rs, i + 1, req)

\* Requests::proxy for a request.
RequestsProxy(req) ==
    /\ proxied' = [req |-> req, via |-> proxy(routes, 1, req)]
    /\ UNCHANGED routes
    /\ UNCHANGED nonRequestsVars

RequestsNext == \E req \in RequestKinds : RequestsProxy(req)

(***************************************************************************)
(*                     profiles: concrete dispatcher                       *)
(***************************************************************************)

\* Bounds of the dispatcher model: the concrete addresses an update can
\* name, the largest weight, the longest list of weighted addresses, the
\* services the maker may be asked for and the versions the watch may reach.
NumAddrs == 2
MaxWeight == 1
MaxSplit == 2
MaxMade == 4
MaxVersion == 3

\* Addresses; NoAddr stands for None, the target's own address.
NoAddr == 0
Addrs == 1..NumAddrs
Weights == 0..MaxWeight

\* The lists of weighted addresses set_split is given: not empty, and with
\* two or more entries not all of weight 0 (WeightedIndex::new refuses
\* those).
RECURSIVE total_weight(_, _)
total_weight(ws, i) == IF i > Len(ws) THEN 0 ELSE ws[i].weight + total_weight(ws, i + 1)

WeightedAddrs ==
    {ws \in UNION {[1..n -> [addr : Addrs, weight : Weights]] : n \in 1..MaxSplit} :
        Len(ws) = 1 \/ total_weight(ws, 1) > 0}

\* Routes::Forward and Routes::Split. A service is its address and the
\* number it was made under.
Forward(addr, svc) ==
    [kind |-> "Forward", addr |-> addr, weights |-> <<>>,
     services |-> <<[addr |-> addr, svc |-> svc]>>]

Split(weights, services) ==
    [kind |-> "Split", addr |-> NoAddr, weights |-> weights, services |-> services]

\* IndexMap::get: the service number kept under an address, 0 for none.
get(services, addr) ==
    IF \E i \in 1..Len(services) : services[i].addr = addr
    THEN services[CHOOSE i \in 1..Len(services) : services[i].addr = addr].svc
    ELSE 0

\* IndexMap::insert: a new address goes last; an address already present
\* keeps its place and takes the new service.
index_map_insert(services, addr, svc) ==
    IF get(services, addr) # 0
    THEN [i \in 1..Len(services) |->
            IF services[i].addr = addr THEN [addr |-> addr, svc |-> svc] ELSE services[i]]
    ELSE Append(services, [addr |-> addr, svc |-> svc])

\* The services of a split over addrs[i..], added to acc: an address found
\* in prior keeps the service it has there, any other gets a new one from
\* the maker. `made` counts the services made.
RECURSIVE split_services(_, _, _, _, _)
split_services(addrs, i, prior, acc, n) ==
    IF i > Len(addrs) THEN [services |-> acc, made |-> n]
    ELSE IF get(prior, addrs[i].addr) # 0
    THEN split_services(addrs, i + 1, prior,
                        index_map_insert(acc, addrs[i].addr, get(prior, addrs[i].addr)), n)
    ELSE split_services(addrs, i + 1, prior,
                        index_map_insert(acc, addrs[i].addr, n + 1), n + 1)

\* Update::set_split: the table for a list of weighted addresses, given the
\* present table. `published` is FALSE where set_split returns early.
set_split(rs, addrs, n) ==
    IF Len(addrs) = 1
    THEN IF rs.kind = "Forward"
         THEN IF rs.addr = addrs[1].addr
              THEN [routes |-> rs, made |-> n, published |-> FALSE]
              ELSE [routes |-> Forward(addrs[1].addr, n + 1), made |-> n + 1, published |-> TRUE]
         ELSE IF get(rs.services, addrs[1].addr) # 0
              THEN [routes |-> Forward(addrs[1].addr, get(rs.services, addrs[1].addr)),
                    made |-> n, published |-> TRUE]
              ELSE [routes |-> Forward(addrs[1].addr, n + 1), made |-> n + 1, published |-> TRUE]
    ELSE LET prior == IF rs.kind = "Forward" THEN <<>> ELSE rs.services
             built == split_services(addrs, 1, prior, <<>>, n)
         IN [routes |-> Split([i \in 1..Len(addrs) |-> addrs[i].weight], built.services),
             made |-> built.made, published |-> TRUE]

\* Update::set_forward.
set_forward(rs, n) ==
    IF rs.kind = "Forward" /\ rs.addr = NoAddr
    THEN [routes |-> rs, made |-> n, published |-> FALSE]
    ELSE [routes |-> Forward(NoAddr, n + 1), made |-> n + 1, published |-> TRUE]

\* forward(): the dispatcher starts forwarding to a service made for the
\* target; the watch holds that table, which the receiver has not seen yet.
ConcreteInit ==
    /\ c_routes = Forward(NoAddr, 1)
    /\ u_routes = Forward(NoAddr, 1)
    /\ watch = [value |-> Forward(NoAddr, 1), version |-> 1]
    /\ c_ver = 0
    /\ next_split_index = 0
    /\ c_ready = FALSE
    /\ c_last = [op |-> "new", res |-> "none", to |-> [addr |-> NoAddr, svc |-> 0], polled |-> <<>>,
                 answers |-> <<>>]
    /\ made = 1

\* What an Update call leaves: the table is kept and, unless the call
\* returned early, broadcast on the watch.
Publish(r) ==
    /\ r.made <= MaxMade
    /\ r.published => watch.version < MaxVersion
    /\ u_routes' = r.routes
    /\ made' = r.made
    /\ watch' = IF r.published
                THEN [value |-> r.routes, version |-> watch.version + 1]
                ELSE watch
    /\ c_last' = [c_last EXCEPT !.op = "update"]
    /\ UNCHANGED <<c_routes, c_ver, next_split_index, c_ready>>
    /\ UNCHANGED nonConcreteVars

SetSplit(addrs) == Publish(set_split(u_routes, addrs, made))

SetForward == Publish(set_forward(u_routes, made))

\* distribution.sample(&mut self.rng): an index of positive weight.
sample(weights) == {i \in 1..Len(weights) : weights[i] > 0}

\* The head of Service::poll_ready where a cached index is answered before
\* the updates are looked at.
drain_unless_cached ==
    IF next_split_index = 0 /\ watch.version # c_ver
    THEN [routes |-> watch.value, ver |-> watch.version, idx |-> 0]
    ELSE [routes |-> c_routes, ver |-> c_ver, idx |-> next_split_index]

\* The head of Service::poll_ready replacing the table and keeping the
\* cached index.
drain_keeping_index ==
    IF watch.version # c_ver
    THEN [routes |-> watch.value, ver |-> watch.version, idx |-> next_split_index]
    ELSE [routes |-> c_routes, ver |-> c_ver, idx |-> next_split_index]

\* The head of Service::poll_ready: the updates are taken from the watch
\* until none is pending; a new table replaces the present one and clears
\* the cached index. The watch holds only the value published last.
drain ==
    IF watch.version # c_ver
    THEN [routes |-> watch.value, ver |-> watch.version, idx |-> 0]
    ELSE [routes |-> c_routes, ver |-> c_ver, idx |-> next_split_index]

\* The split arm of Service::poll_ready where only the first attempt samples
\* the distribution and each further attempt polls the service after the
\* one polled before.
RECURSIVE poll_split_probing(_, _, _, _)
poll_split_probing(rs, attempts, i, polled) ==
    LET idx == IF i = 1 THEN attempts[1].idx
               ELSE (polled[Len(polled)] % Len(rs.services)) + 1
    IN IF i > Len(rs.services) THEN [res |-> "NotReady", idx |-> 0, polled |-> polled]
       ELSE IF idx > Len(rs.services)
       THEN [res |-> "panic", idx |-> 0, polled |-> polled]
       ELSE IF attempts[i].ans = "Err"
       THEN [res |-> "Err", idx |-> 0, polled |-> Append(polled, idx)]
       ELSE IF attempts[i].ans = "Ready"
       THEN [res |-> "Ready", idx |-> idx, polled |-> Append(polled, idx)]
       ELSE poll_split_probing(rs, attempts, i + 1, Append(polled, idx))

\* The split arm of Service::poll_ready caching the index sampled first
\* instead of the index of the service found ready.
RECURSIVE poll_split_caching_first(_, _, _, _)
poll_split_caching_first(rs, attempts, i, polled) ==
    IF i > Len(rs.services) THEN [res |-> "NotReady", idx |-> 0, polled |-> polled]
    ELSE IF attempts[i].idx > Len(rs.services)
    THEN [res |-> "panic", idx |-> 0, polled |-> polled]
    ELSE IF attempts[i].ans = "Err"
    THEN [res |-> "Err", idx |-> 0, polled |-> Append(polled, attempts[i].idx)]
    ELSE IF attempts[i].ans = "Ready"
    THEN [res |-> "Ready", idx |-> attempts[1].idx, polled |-> Append(polled, attempts[i].idx)]
    ELSE poll_split_caching_first(rs, attempts, i + 1, Append(polled, attempts[i].idx))

\* The split arm of Service::poll_ready from the i-th attempt on: each
\* attempt polls the service at the sampled index; the first that is ready
\* is cached. `polled` lists the indexes polled.
RECURSIVE poll_split(_, _, _, _)
poll_split(rs, attempts, i, polled) ==
    IF i > Len(rs.services) THEN [res |-> "NotReady", idx |-> 0, polled |-> polled]
    ELSE IF attempts[i].idx > Len(rs.services)
    THEN [res |-> "panic", idx |-> 0, polled |-> polled]
    ELSE IF attempts[i].ans = "Err"
    THEN [res |-> "Err", idx |-> 0, polled |-> Append(polled, attempts[i].idx)]
    ELSE IF attempts[i].ans = "Ready"
    THEN [res |-> "Ready", idx |-> attempts[i].idx, polled |-> Append(polled, attempts[i].idx)]
    ELSE poll_split(rs, attempts, i + 1, Append(polled, attempts[i].idx))

\* An attempt poll_ready does not make.
NoAttempt == [idx |-> 1, ans |-> "NotReady"]

\* Whether poll_ready makes its i-th attempt on the table rs: a forward polls
\* its service once; a split with no cached index samples again while the
\* services polled are not ready, as many times as it has services.
attempted(rs, cached, attempts, i) ==
    IF rs.kind = "Forward" THEN i = 1
    ELSE /\ cached = 0
         /\ i <= Len(rs.services)
         /\ \A j \in 1..(i - 1) :
               attempts[j].ans = "NotReady" /\ attempts[j].idx <= Len(rs.services)

\* Service::poll_ready. `attempts` gives, for each attempt this poll makes,
\* the index sampled and what the service polled answers.
ConcretePollReady(attempts) ==
    LET d == drain
        r == IF d.routes.kind = "Forward"
             THEN [res |-> attempts[1].ans, idx |-> 0, polled |-> <<1>>]
             ELSE IF d.idx # 0
             THEN [res |-> "Ready", idx |-> d.idx, polled |-> <<>>]
             ELSE poll_split(d.routes, attempts, 1, <<>>)
    IN /\ \A i \in 1..Len(attempts) :
             IF attempted(d.routes, d.idx, attempts, i)
             THEN IF d.routes.kind = "Split"
                  THEN attempts[i].idx \in sample(d.routes.weights)
                  ELSE attempts[i].idx = 1
             ELSE attempts[i] = NoAttempt
       /\ c_routes' = d.routes
       /\ c_ver' = d.ver
       /\ next_split_index' = r.idx
       /\ c_ready' = (r.res = "Ready")
       /\ c_last' = [op |-> "poll_ready", res |-> r.res,
                     to |-> [addr |-> NoAddr, svc |-> 0], polled |-> r.polled,
                     answers |-> [k \in 1..Len(r.polled) |-> attempts[k].ans]]
       /\ UNCHANGED <<watch, u_routes, made>>
       /\ UNCHANGED nonConcreteVars

\* Service::call, made after poll_ready returned Ready: a forward calls its
\* service; a split takes the cached index and calls the service there.
ConcreteCall ==
    /\ c_ready
    /\ LET i == IF c_routes.kind = "Forward" THEN 1 ELSE next_split_index
       IN c_last' = [op |-> "call", res |-> "called", to |-> c_routes.services[i], polled |-> <<>>,
                     answers |-> <<>>]
    /\ next_split_index' = 0
    /\ c_ready' = FALSE
    /\ UNCHANGED <<c_routes, c_ver, watch, u_routes, made>>
    /\ UNCHANGED nonConcreteVars

\* The dispatcher after forward() and one set_split with any list of
\* weighted addresses, before its first poll_ready.
ConcreteAfterSetSplit ==
    \E addrs \in WeightedAddrs :
        LET r == set_split(Forward(NoAddr, 1), addrs, 1)
        IN /\ c_routes = Forward(NoAddr, 1)
           /\ u_routes = r.routes
           /\ watch = IF r.published
                      THEN [value |-> r.routes, version |-> 2]
                      ELSE [value |-> Forward(NoAddr, 1), version |-> 1]
           /\ c_ver = 0
           /\ next_split_index = 0
           /\ c_ready = FALSE
           /\ c_last = [op |-> "update", res |-> "none", to |-> [addr |-> NoAddr, svc |-> 0],
                        polled |-> <<>>, answers |-> <<>>]
           /\ made = r.made

\* The dispatcher's side alone: poll_ready and call.
DispatchNext ==
    \/ \E attempts \in [1..MaxSplit -> [idx : 1..MaxSplit, ans : {"Ready", "NotReady", "Err"}]] :
          ConcretePollReady(attempts)
    \/ ConcreteCall

ConcreteNext ==
    \/ \E addrs \in WeightedAddrs : SetSplit(addrs)
    \/ SetForward
    \/ \E attempts \in [1..MaxSplit -> [idx : 1..MaxSplit, ans : {"Ready", "NotReady", "Err"}]] :
          ConcretePollReady(attempts)
    \/ ConcreteCall

(***************************************************************************)
(*                 outbound endpoints (app/outbound/endpoint.rs)           *)
(***************************************************************************)

\* Bounds of the endpoint model.
NumSockets == 2
NumMetadata == 2
EndpointCapacity == 2

SocketAddrs == 1..NumSockets
\* tls::PeerIdentity: no identity, or the name of the peer.
PeerIdentities == {"none", "peer"}
\* http::Settings.
HttpSettings == {"Http1", "Http2"}
\* Metadata: what discovery tells about an endpoint (labels, protocol hint).
Metadata == 1..NumMetadata

HttpEndpoint ==
    [addr : SocketAddrs, settings : HttpSettings, identity : PeerIdentities, metadata : Metadata]

\* #[derive(Eq, PartialEq)] on HttpEndpoint: the fields are compared one by
\* one, discovery metadata included.
eq(a, b) ==
    /\ a.addr = b.addr
    /\ a.settings = b.settings
    /\ a.identity = b.identity
    /\ a.metadata = b.metadata

\* Hash for HttpEndpoint: address, identity and settings; metadata is left
\* out.
hash(e) == <<e.addr, e.identity, e.settings>>

\* The lookup of a key in the cache's map: an entry is found when a key in
\* the map has the hash of the key looked up and is equal to it.
contains_key(keys, e) == \E k \in keys : hash(k) = hash(e) /\ eq(k, e)

EndpointInit ==
    /\ ep_cache = {}
    /\ ep_got = "none"

\* The endpoint cache is asked for the service of an endpoint (the cache's
\* ResponseFuture::poll): a hit returns the cached service, a miss on a
\* full cache fails, any other miss makes a service and inserts the key.
EndpointAccess(e) ==
    /\ IF contains_key(ep_cache, e)
       THEN /\ ep_got' = "cached"
            /\ UNCHANGED ep_cache
       ELSE IF Cardinality(ep_cache) >= EndpointCapacity
       THEN /\ ep_got' = "NoCapacity"
            /\ UNCHANGED ep_cache
       ELSE /\ ep_got' = "made"
            /\ ep_cache' = ep_cache \cup {e}
    /\ UNCHANGED nonEndpointVars

EndpointNext == \E e \in HttpEndpoint : EndpointAccess(e)

(***************************************************************************)
(*                    stacks of layers (app/core/src/svc.rs)               *)
(***************************************************************************)

\* Bounds of the stack model: the layers told apart by name, and the pushes
\* made on one stack.
NumLayerNames == 3
MaxPushed == 2

\* A layer, by its name and by what its service does: a "shed" service is
\* always ready and fails a call with Overloaded when the service under it
\* was not ready (push_load_shed); a "pass" service hands poll_ready and
\* call on (as the tracing and mapping layers do). Every service adds its
\* name to the path of a request it hands on.
LayerValues == [name : 1..NumLayerNames, kind : {"shed", "pass"}]
NoLayer == [name |-> 0, kind |-> "none"]

\* tower's Identity, a single layer, and tower's Stack of an inner and an
\* outer layer (Pair in svc.rs).
Identity == [kind |-> "Identity", l |-> NoLayer, inner |-> <<>>, outer |-> <<>>]
Single(x) == [kind |-> "Layer", l |-> x, inner |-> <<>>, outer |-> <<>>]
Pair(i, o) == [kind |-> "Pair", l |-> NoLayer, inner |-> <<i>>, outer |-> <<o>>]

\* A service is the list of the layers around the inner service S, the
\* outermost first. Layer::layer of a single layer wraps the service.
wrap(x, svc) == <<x>> \o svc

\* layers().
layers == Identity

\* Layers::push with the two arguments of Pair::new exchanged.
layers_push_swapped(L, outer) == Pair(Single(outer), L)

\* Layers::push.
layers_push(L, outer) == Pair(L, Single(outer))

\* Layer::layer for Layers: Identity gives the service back, a Pair applies
\* its inner layer and then its outer layer to the result.
RECURSIVE layer(_, _)
layer(L, svc) ==
    IF L.kind = "Identity" THEN svc
    ELSE IF L.kind = "Layer" THEN wrap(L.l, svc)
    ELSE layer(L.outer[1], layer(L.inner[1], svc))

\* stack(inner): the bare inner service.
stack == <<>>

\* Stack::push.
stack_push(svc, x) == wrap(x, svc)

\* The Layers after the pushes ls[1..n], and the Stack after the same
\* pushes.
RECURSIVE pushed_layers(_, _)
pushed_layers(ls, n) == IF n = 0 THEN layers ELSE layers_push(pushed_layers(ls, n - 1), ls[n])

RECURSIVE pushed_stack(_, _)
pushed_stack(ls, n) == IF n = 0 THEN stack ELSE stack_push(pushed_stack(ls, n - 1), ls[n])

\* Service::poll_ready of a stacked service, given the answer of S.
RECURSIVE stack_poll_ready(_, _)
stack_poll_ready(svc, inner) ==
    IF svc = <<>> THEN inner
    ELSE IF Head(svc).kind = "shed" THEN "Ready"
    ELSE stack_poll_ready(Tail(svc), inner)

\* Service::call of a stacked service: the request goes down the layers to
\* S, which answers with the path the request took.
RECURSIVE stack_call(_, _, _)
stack_call(svc, path, inner) ==
    IF svc = <<>> THEN [res |-> "Ok", path |-> path]
    ELSE IF Head(svc).kind = "shed" /\ stack_poll_ready(Tail(svc), inner) # "Ready"
    THEN [res |-> "Overloaded", path |-> Append(path, Head(svc).name)]
    ELSE stack_call(Tail(svc), Append(path, Head(svc).name), inner)

NoOutput == [op |-> "none", res |-> "none", path |-> <<>>]

SvcInit ==
    /\ sv_pushed = <<>>
    /\ sv_stack = stack
    /\ sv_layered = layer(layers, stack)
    /\ sv_inner = "none"
    /\ sv_out = [stacked |-> NoOutput, layered |-> NoOutput]

\* The same layers are pushed on a Stack over S one by one, and on layers(),
\* whose result is then applied to S.
SvcBuild(ls) ==
    /\ sv_pushed' = ls
    /\ sv_stack' = pushed_stack(ls, Len(ls))
    /\ sv_layered' = layer(pushed_layers(ls, Len(ls)), stack)
    /\ sv_inner' = "none"
    /\ sv_out' = [stacked |-> NoOutput, layered |-> NoOutput]
    /\ UNCHANGED nonSvcVars

\* poll_ready is called on both services; S answers `inner`.
SvcPollReady(inner) ==
    /\ sv_inner' = inner
    /\ sv_out' = [stacked |-> [op |-> "poll_ready", res |-> stack_poll_ready(sv_stack, inner), path |-> <<>>],
                  layered |-> [op |-> "poll_ready", res |-> stack_poll_ready(sv_layered, inner), path |-> <<>>]]
    /\ UNCHANGED <<sv_pushed, sv_stack, sv_layered>>
    /\ UNCHANGED nonSvcVars

\* call is made on both services, after a poll_ready that returned Ready on
\* both.
SvcCall ==
    /\ sv_out.stacked.op = "poll_ready" /\ sv_out.stacked.res = "Ready"
    /\ sv_out.layered.op = "poll_ready" /\ sv_out.layered.res = "Ready"
    /\ LET s == stack_call(sv_stack, <<>>, sv_inner)
           l == stack_call(sv_layered, <<>>, sv_inner)
       IN sv_out' = [stacked |-> [op |-> "call", res |-> s.res, path |-> s.path],
                     layered |-> [op |-> "call", res |-> l.res, path |-> l.path]]
    /\ UNCHANGED <<sv_pushed, sv_stack, sv_layered, sv_inner>>
    /\ UNCHANGED nonSvcVars

SvcNext ==
    \/ \E ls \in UNION {[1..n -> LayerValues] : n \in 0..MaxPushed} : SvcBuild(ls)
    \/ \E inner \in {"Ready", "NotReady"} : SvcPollReady(inner)
    \/ SvcCall

(***************************************************************************)
(*              metrics registry (http-metrics/src/lib.rs)                 *)
(***************************************************************************)

\* Bounds of the registry model: the targets, the handles held outside the
\* registry on one target's metrics, and the instants of the clock.
NumMetricTargets == 2
MaxMetricHandles == 1
MaxMetricClock == 2

MetricTargets == 1..NumMetricTargets

\* A target without metrics in by_target.
NoMetrics == [present |-> FALSE, handles |-> 0, last_update |-> 0, lock_ok |-> TRUE]

\* Arc::strong_count of a target's metrics: the registry's own reference
\* and the handles outside it.
metrics_strong_count(m) == 1 + m.handles

\* retain_since keeping an entry by its last update alone.
retain_since_by_time(by_target, epoch) ==
    [t \in MetricTargets |->
        IF by_target[t].present /\ by_target[t].lock_ok /\ by_target[t].last_update >= epoch
        THEN by_target[t]
        ELSE NoMetrics]

\* Registry::retain_since: an entry is kept when a handle exists outside the
\* registry, or when its lock can be taken and its last update is not before
\* epoch.
retain_since(by_target, epoch) ==
    [t \in MetricTargets |->
        IF /\ by_target[t].present
           /\ \/ metrics_strong_count(by_target[t]) > 1
              \/ (IF by_target[t].lock_ok THEN by_target[t].last_update >= epoch ELSE FALSE)
        THEN by_target[t]
        ELSE NoMetrics]

NoRetain == [epoch |-> 0 - 1, before |-> [t \in MetricTargets |-> NoMetrics]]

MetricsInit ==
    /\ mr_now = 0
    /\ mr_by_target = [t \in MetricTargets |-> NoMetrics]
    /\ mr_retained = NoRetain

\* by_target.entry(t).or_insert_with(Default::default).clone(): metrics made
\* now if the target has none, and one more handle outside the registry.
MetricsRegister(t) ==
    /\ mr_by_target[t].handles < MaxMetricHandles
    /\ mr_by_target' = [mr_by_target EXCEPT ![t] =
            IF @.present THEN [@ EXCEPT !.handles = @ + 1]
            ELSE [present |-> TRUE, handles |-> 1, last_update |-> mr_now, lock_ok |-> TRUE]]
    /\ mr_retained' = NoRetain
    /\ UNCHANGED mr_now
    /\ UNCHANGED nonMetricsVars

\* A handle is dropped.
MetricsDropHandle(t) ==
    /\ mr_by_target[t].handles > 0
    /\ mr_by_target' = [mr_by_target EXCEPT ![t].handles = @ - 1]
    /\ mr_retained' = NoRetain
    /\ UNCHANGED mr_now
    /\ UNCHANGED nonMetricsVars

\* The clock advances.
MetricsTick ==
    /\ mr_now < MaxMetricClock
    /\ mr_now' = mr_now + 1
    /\ mr_retained' = NoRetain
    /\ UNCHANGED mr_by_target
    /\ UNCHANGED nonMetricsVars

\* registry.retain_since(epoch), for an epoch up to now (a report uses
\* now - retain_idle).
MetricsRetainSince(epoch) ==
    /\ mr_by_target' = retain_since(mr_by_target, epoch)
    /\ mr_retained' = [epoch |-> epoch, before |-> mr_by_target]
    /\ UNCHANGED mr_now
    /\ UNCHANGED nonMetricsVars

MetricsNext ==
    \/ \E t \in MetricTargets : MetricsRegister(t)
    \/ \E t \in MetricTargets : MetricsDropHandle(t)
    \/ MetricsTick
    \/ \E epoch \in 0..mr_now : MetricsRetainSince(epoch)

(***************************************************************************)
(*               canonicalize (proxy/http/src/canonicalize.rs)             *)
(***************************************************************************)

\* Bounds of the canonicalize model: the names DNS refines the original
\* name to, and the requests in flight.
NumCanonNames == 2
NumCanonRequests == 2

\* Name 0 is the original name of the address.
OriginalName == 0
CanonNames == 0..NumCanonNames
CanonRequests == 1..NumCanonRequests

\* The watch holds None until the task's first broadcast.
NoName == 0 - 1

\* Cache, the state of the last resolution.
AwaitingInitial == [kind |-> "AwaitingInitial", name |-> NoName]
Unresolved == [kind |-> "Unresolved", name |-> NoName]
Resolved(n) == [kind |-> "Resolved", name |-> n]

\* Cache::get.
cache_get(c) == IF c.kind = "Resolved" THEN c.name ELSE NoName

\* A request not yet given to the service.
Unsent == [st |-> "unsent", name |-> NoName, unseen |-> FALSE, calls |-> 0]

\* Receiver::poll_ref: a value not yet observed by this receiver is
\* returned, once; without one the receiver is not ready. (The sender is
\* held by the task, which ends only after the receivers are gone.)
poll_ref(rf, value) ==
    IF rf.unseen THEN [ready |-> TRUE, update |-> value] ELSE [ready |-> FALSE, update |-> NoName]

\* ResponseFuture::poll in Canonicalize dispatching on whatever the watch
\* holds.
canonicalize_poll_any(rf, value) ==
    [rf EXCEPT !.st = "Dispatch", !.name = value, !.unseen = FALSE]

\* ResponseFuture::poll in Canonicalize: a None update is skipped and the
\* watch polled again, which is then not ready; a name is put in the
\* request's extensions and the request goes to the Oneshot.
canonicalize_poll(rf, value) ==
    LET p == poll_ref(rf, value) IN
    IF ~p.ready THEN rf
    ELSE IF p.update = NoName THEN [rf EXCEPT !.unseen = FALSE]
    ELSE [rf EXCEPT !.st = "Dispatch", !.name = p.update, !.unseen = FALSE]

\* Sender::broadcast: the value is stored and every receiver has a value
\* it has not observed.
broadcast(reqs, r) == [reqs[r] EXCEPT !.unseen = TRUE]

\* No refinement is in effect: none completed yet, or the last one expired.
NoOutcome == [op |-> "none", name |-> NoName, sent |-> FALSE]

CanonInit ==
    /\ cn_state = "Init"
    /\ cn_resolved = AwaitingInitial
    /\ cn_watch = NoName
    /\ cn_req = [r \in CanonRequests |-> Unsent]
    /\ cn_outcome = NoOutcome

\* Task::poll in Init: the resolver is asked to refine the original name.
CanonTaskInit ==
    /\ cn_state = "Init"
    /\ cn_state' = "Pending"
    /\ UNCHANGED <<cn_resolved, cn_watch, cn_req, cn_outcome>>
    /\ UNCHANGED nonCanonVars

\* Task::poll in Pending, the refinement ready with name n: a name other
\* than the one last notified is broadcast.
CanonTaskRefined(n) ==
    /\ cn_state = "Pending"
    /\ IF cache_get(cn_resolved) # n
       THEN /\ cn_watch' = n
            /\ cn_req' = [r \in CanonRequests |-> broadcast(cn_req, r)]
            /\ cn_resolved' = Resolved(n)
       ELSE UNCHANGED <<cn_watch, cn_req, cn_resolved>>
    /\ cn_outcome' = [op |-> "refined", name |-> n, sent |-> cache_get(cn_resolved) # n]
    /\ cn_state' = "ValidUntil"
    /\ UNCHANGED nonCanonVars

\* Task::poll in Pending, the refinement failed or timed out, broadcasting
\* the original name on every failure.
CanonTaskFailedRepublishes ==
    /\ cn_state = "Pending"
    /\ cn_watch' = OriginalName
    /\ cn_req' = [r \in CanonRequests |-> broadcast(cn_req, r)]
    /\ cn_resolved' = Unresolved
    /\ cn_outcome' = [op |-> "failed", name |-> NoName, sent |-> TRUE]
    /\ cn_state' = "ValidUntil"
    /\ UNCHANGED nonCanonVars

\* Task::poll in Pending, the refinement failed or timed out: the original
\* name is broadcast if the service has no value yet.
CanonTaskFailed ==
    /\ cn_state = "Pending"
    /\ IF cn_resolved = AwaitingInitial
       THEN /\ cn_watch' = OriginalName
            /\ cn_req' = [r \in CanonRequests |-> broadcast(cn_req, r)]
            /\ cn_resolved' = Unresolved
       ELSE UNCHANGED <<cn_watch, cn_req, cn_resolved>>
    /\ cn_outcome' = [op |-> "failed", name |-> NoName, sent |-> cn_resolved = AwaitingInitial]
    /\ cn_state' = "ValidUntil"
    /\ UNCHANGED nonCanonVars

\* Task::poll in ValidUntil, the delay elapsed.
CanonTaskExpired ==
    /\ cn_state = "ValidUntil"
    /\ cn_state' = "Init"
    /\ cn_outcome' = NoOutcome
    /\ UNCHANGED <<cn_resolved, cn_watch, cn_req>>
    /\ UNCHANGED nonCanonVars

\* Service::call: with a name in the watch the request gets it and the
\* inner service is called; without one the future holds the request, a
\* clone of the inner service and a clone of the receiver, which has not
\* observed the value the watch holds.
CanonCall(r) ==
    /\ cn_req[r].st = "unsent"
    /\ cn_req' = [cn_req EXCEPT ![r] =
            IF cn_watch # NoName
            THEN [st |-> "Inner", name |-> cn_watch, unseen |-> FALSE, calls |-> 1]
            ELSE [st |-> "Canonicalize", name |-> NoName, unseen |-> TRUE, calls |-> 0]]
    /\ UNCHANGED <<cn_state, cn_resolved, cn_watch, cn_outcome>>
    /\ UNCHANGED nonCanonVars

\* ResponseFuture::poll in Canonicalize.
CanonPoll(r) ==
    /\ cn_req[r].st = "Canonicalize"
    /\ cn_req[r].unseen
    /\ cn_req' = [cn_req EXCEPT ![r] = canonicalize_poll(@, cn_watch)]
    /\ UNCHANGED <<cn_state, cn_resolved, cn_watch, cn_outcome>>
    /\ UNCHANGED nonCanonVars

\* ResponseFuture::poll in Dispatch: the Oneshot found the cloned inner
\* service ready and called it with the request.
CanonOneshot(r) ==
    /\ cn_req[r].st = "Dispatch"
    /\ cn_req' = [cn_req EXCEPT ![r].st = "Inner", ![r].calls = @ + 1]
    /\ UNCHANGED <<cn_state, cn_resolved, cn_watch, cn_outcome>>
    /\ UNCHANGED nonCanonVars

\* The response of a request came; another request takes its place.
CanonDone(r) ==
    /\ cn_req[r].st = "Inner"
    /\ cn_req' = [cn_req EXCEPT ![r] = Unsent]
    /\ UNCHANGED <<cn_state, cn_resolved, cn_watch, cn_outcome>>
    /\ UNCHANGED nonCanonVars

CanonNext ==
    \/ CanonTaskInit
    \/ \E n \in CanonNames : CanonTaskRefined(n)
    \/ CanonTaskFailed
    \/ CanonTaskExpired
    \/ \E r \in CanonRequests : CanonCall(r)
    \/ \E r \in CanonRequests : CanonPoll(r)
    \/ \E r \in CanonRequests : CanonOneshot(r)
    \/ \E r \in CanonRequests : CanonDone(r)

(***************************************************************************)
(*   the outbound stack's error-caching locks (app/outbound/src/lib.rs)    *)
(***************************************************************************)

NumOutboundProfiles == 2
NumOutboundConcretes == 2

OutboundProfiles == 1..NumOutboundProfiles
OutboundConcretes == 1..NumOutboundConcretes

\* What the errors print as, other than "discovery rejected".
OutboundMessages == {"discovery rejected", "connect failed"}

\* The boxed errors of the outbound stack, as <<type, text>>: the struct
\* DiscoveryRejected, LogicalError::DiscoveryRejected, LogicalError::Inner(s)
\* as <<"LogicalError", s>>, and errors of any other type with their message.
OutboundErrors ==
    {<<"DiscoveryRejected", "discovery rejected">>, <<"LogicalError", "DiscoveryRejected">>}
        \cup {<<"LogicalError", s>> : s \in OutboundMessages}
        \cup {<<"Other", s>> : s \in OutboundMessages}

\* Display: LogicalError::DiscoveryRejected and DiscoveryRejected print
\* "discovery rejected", LogicalError::Inner(s) prints s.
to_string(e) ==
    IF e = <<"LogicalError", "DiscoveryRejected">> THEN "discovery rejected" ELSE e[2]

\* A conversion that never looks for a LogicalError inside the boxed error.
LogicalError_from_string(orig) ==
    IF orig[1] = "DiscoveryRejected" THEN <<"LogicalError", "DiscoveryRejected">>
    ELSE <<"LogicalError", to_string(orig)>>

\* impl From<Error> for LogicalError: a boxed LogicalError is cloned, a
\* DiscoveryRejected becomes the variant, anything else Inner(to_string).
LogicalError_from(orig) ==
    IF orig[1] = "LogicalError" THEN orig
    ELSE IF orig[1] = "DiscoveryRejected" THEN <<"LogicalError", "DiscoveryRejected">>
    ELSE <<"LogicalError", to_string(orig)>>

\* What the balancer's poll_ready answers.
BalancerPolls ==
    {[res |-> "Ready", err |-> NoError], [res |-> "NotReady", err |-> NoError]}
        \cup {[res |-> "Err", err |-> e] : e \in OutboundErrors}

\* Lock::poll_ready with_errors::<LogicalError>, the lock being free: a
\* stored error is cloned and returned; otherwise the inner service is
\* polled, its answer being `a`, and its error is converted, stored and
\* returned. `state` is the state left in the lock, `out` what is returned.
lock_poll_ready(state, a) ==
    IF state.kind = "Error"
    THEN [state |-> state, out |-> [res |-> "Err", err |-> state.err], cached |-> TRUE]
    ELSE IF a.res = "Err"
    THEN [state |-> [kind |-> "Error", err |-> LogicalError_from(a.err)],
          out |-> [res |-> "Err", err |-> LogicalError_from(a.err)], cached |-> FALSE]
    ELSE [state |-> state, out |-> a, cached |-> FALSE]

NoOutboundRes == [res |-> "none", err |-> NoError, cached |-> FALSE]

OutboundInit ==
    /\ ob_balancer = [c \in OutboundConcretes |-> StateService]
    /\ ob_profile = [p \in OutboundProfiles |-> StateService]
    /\ ob_raised = [c \in OutboundConcretes |-> NoError]
    /\ ob_src = [p \in OutboundProfiles |-> NoError]
    /\ ob_res = [p \in OutboundProfiles |-> NoOutboundRes]

\* The stack above http_profile_cache polls the readiness of profile p's
\* service: the profile's lock answers from its stored error, or polls the
\* profile service, whose readiness is that of concrete c's service in
\* http_balancer_cache, which is the balancer's lock over the balancer; the
\* balancer's poll_ready answers a.
OutboundPollReady(p, c, a) ==
    LET poisoned == ob_profile[p].kind = "Error"
        inner == lock_poll_ready(ob_balancer[c], a)
        outer == lock_poll_ready(ob_profile[p], inner.out)
        asked == ~poisoned /\ ob_balancer[c].kind = "Service"
    IN /\ ob_profile' = [ob_profile EXCEPT ![p] = outer.state]
       /\ ob_balancer' = IF poisoned THEN ob_balancer
                         ELSE [ob_balancer EXCEPT ![c] = inner.state]
       /\ ob_raised' = IF asked /\ a.res = "Err"
                       THEN [ob_raised EXCEPT ![c] = a.err] ELSE ob_raised
       /\ ob_src' = IF ~poisoned /\ outer.out.res = "Err"
                    THEN [ob_src EXCEPT ![p] = ob_raised'[c]] ELSE ob_src
       /\ ob_res' = [ob_res EXCEPT ![p] = [res |-> outer.out.res, err |-> outer.out.err,
                                           cached |-> outer.cached]]
       /\ UNCHANGED nonOutboundVars

OutboundNext ==
    \E p \in OutboundProfiles, c \in OutboundConcretes, a \in BalancerPolls :
        OutboundPollReady(p, c, a)

(***************************************************************************)
(*                              specifications                             *)
(***************************************************************************)

Init == CacheInit /\ BufferInit /\ AdmitInit /\ RetryInit /\ LockInit /\ FallbackInit /\ RouterInit /\ RequestsInit /\ ConcreteInit /\ EndpointInit /\ SvcInit /\ MetricsInit /\ CanonInit /\ OutboundInit

SpecCache == Init /\ [][CacheNext]_vars

\* The purge task is spawned on the executor and waits in the lock's queue
\* with the callers: it gets the lock again and again while entries are
\* evictable; a poll that took the lock runs to its end.
SpecCacheFair ==
    /\ Init /\ [][CacheNext]_vars
    /\ SF_vars(Purge)
    /\ \A c \in Callers : WF_vars(ResponseFuturePoll(c))

SpecBuffer == Init /\ [][BufferNext]_vars

SpecAdmit == Init /\ [][AdmitNext]_vars

SpecRetry == Init /\ [][RetryNext]_vars

SpecLock == Init /\ [][LockNext]_vars

SpecFallback == Init /\ [][FallbackNext]_vars

SpecRouter == Init /\ [][RouterNext]_vars

\* Requests::proxy depends on the route list and the request alone: it is
\* checked from every list set_routes can have installed.
InitWithRoutes ==
    /\ CacheInit /\ BufferInit /\ AdmitInit /\ RetryInit /\ LockInit /\ FallbackInit
    /\ RouterInit /\ ConcreteInit
    /\ EndpointInit
    /\ SvcInit
    /\ MetricsInit
    /\ CanonInit
    /\ OutboundInit
    /\ RequestsWithRoutes

SpecRequests == InitWithRoutes /\ [][RequestsNext]_vars

SpecConcrete == Init /\ [][ConcreteNext]_vars

\* The dispatch of requests under one table: every table set_split builds
\* from the first forward, every answer of the services, poll_ready and
\* call in every order.
InitAfterSetSplit ==
    /\ CacheInit /\ BufferInit /\ AdmitInit /\ RetryInit /\ LockInit /\ FallbackInit
    /\ RouterInit /\ RequestsInit
    /\ EndpointInit
    /\ SvcInit
    /\ MetricsInit
    /\ CanonInit
    /\ OutboundInit
    /\ ConcreteAfterSetSplit

SpecDispatch == InitAfterSetSplit /\ [][DispatchNext]_vars

SpecEndpoint == Init /\ [][EndpointNext]_vars

SpecSvc == Init /\ [][SvcNext]_vars

SpecMetrics == Init /\ [][MetricsNext]_vars

SpecCanon == Init /\ [][CanonNext]_vars

SpecOutbound == Init /\ [][OutboundNext]_vars

\* The task and the response futures are spawned on the executor, which
\* polls a notified future; the refinement is under a Timeout, so a pending
\* one ends; the inner service becomes ready.
SpecCanonFair ==
    /\ Init /\ [][CanonNext]_vars
    /\ WF_vars(CanonTaskInit)
    /\ WF_vars(CanonTaskFailed \/ \E n \in CanonNames : CanonTaskRefined(n))
    /\ \A r \in CanonRequests : WF_vars(CanonPoll(r))
    /\ \A r \in CanonRequests : WF_vars(CanonOneshot(r))

(***************************************************************************)
(*                                 claims                                  *)
(***************************************************************************)

\* C1: after any sequence of cache accesses by concurrent callers, the cache
\* holds at most `capacity` entries.
CacheWithinCapacity == Cardinality(Resident) <= Capacity

\* C1 witness: the cache is full and an access for another key has been made.
CacheFullAfterAccess ==
    /\ Cardinality(Resident) = Capacity
    /\ \E c \in Callers : fut[c].pc = "done" /\ fut[c].target \notin Resident

\* C2: an access for a key that is not cached while the cache is full fails
\* in that very poll with NoCapacity carrying the configured capacity: the
\* future completes (it is not left pending), the maker is not invoked and
\* the cache contents are unchanged.
FullMissFailsWithNoCapacity ==
    [][\A c \in Callers :
          (/\ fut[c].pc = "locked"
           /\ access(fut[c].target) = 0
           /\ Cardinality(Resident) >= Capacity
           /\ fut'[c] # fut[c])
          => (/\ fut'[c].pc = "done"
              /\ fut'[c].res = "NoCapacity"
              /\ fut'[c].cap = Capacity
              /\ fut'[c].svc = 0
              /\ cache' = cache
              /\ makes' = makes)]_vars

\* C2 witness: an access failed with NoCapacity while the cache is full of
\* other keys.
NoCapacityReturned ==
    \E c \in Callers :
        /\ fut[c].res = "NoCapacity"
        /\ fut[c].cap = Capacity
        /\ Cardinality(Resident) = Capacity
        /\ fut[c].target \notin Resident

\* C3: while a key is resident the maker has been invoked exactly once for
\* it, and every handle an access returned for the key is the one instance
\* the cache holds (so callers of the same key share that instance's state).
OneInstancePerResidentKey ==
    /\ \A k \in Resident : makes[k] = 1
    /\ \A c \in Callers :
          fut[c].svc # 0 =>
              /\ fut[c].target \in Resident
              /\ cache[fut[c].target].svc = fut[c].svc

\* C3 witness: two callers hold handles obtained for the same key.
TwoHandlesSameKey ==
    \E c1, c2 \in Callers :
        /\ c1 # c2
        /\ fut[c1].res = "Ok" /\ fut[c2].res = "Ok"
        /\ fut[c1].target = fut[c2].target
        /\ fut[c1].svc = fut[c2].svc
\* C4: the buffer is FIFO: whenever the daemon pops a request it is the
\* oldest request still queued, so requests are dispatched to the inner
\* service in the order they were enqueued.
BufferIsFifo ==
    /\ \A i, j \in 1..Len(dispatched) : i < j => dispatched[i] < dispatched[j]
    /\ \A i \in 1..Len(dispatched) : \A t \in Queued : dispatched[i] < t

\* C5: the buffer is bounded: a sender that polls readiness while the queue
\* holds `capacity` requests gets not-ready, and with senders that push only
\* after observing ready the number of queued requests never exceeds
\* `capacity`.
BufferIsBounded ==
    /\ [](Len(in_flight) <= QueueCapacity)
    /\ [][\A s \in Senders :
             (/\ PushPollReady(s) \/ (BufferPollReady(s) /\ DaemonAlive)
              /\ Len(in_flight) >= QueueCapacity)
             => push'[s].res = "NotReady"]_vars

\* C6: every request that outlives the daemon fails with LostDaemon: a poll
\* of the future of a request still queued when the daemon went away returns
\* LostDaemon, and so does a poll_ready of the buffer made after the daemon
\* went away.
OutlivingRequestsFailLostDaemon ==
    [][/\ \A t \in Tokens :
             (PushFuturePoll(t) /\ ~DaemonAlive /\ t \in Queued)
             => pfut'[t].res = "LostDaemon"
       /\ \A s \in Senders :
             (BufferPollReady(s) /\ ~DaemonAlive)
             => push'[s].res = "LostDaemon"]_vars

\* C7: in the admission layers the number of requests in flight inside the
\* concurrency limit never exceeds `max`; poll_ready of the admitted service
\* never makes a caller wait; and a request called while `max` requests are
\* in flight is rejected with Overloaded without reaching the inner service.
AdmissionShedsAtLimit ==
    /\ [](Cardinality(InFlight) <= MaxInFlight)
    /\ [][\A c \in Clients : AdmitPollReady(c) => adm'[c].st = "ready"]_vars
    /\ [][\A c \in Clients :
             (AdmitCall(c) /\ Cardinality(InFlight) = MaxInFlight)
             => (adm'[c].st = "overloaded" /\ c \notin reached')]_vars

\* C7 witness: a request was rejected with Overloaded while `max` requests
\* are in flight.
OverloadedAtLimit ==
    /\ Cardinality(InFlight) = MaxInFlight
    /\ \E c \in Clients : adm[c].st = "overloaded" /\ c \notin reached

ExhaustedBudgetReturnsResponse ==
    [][\A q \in Requests :
          (/\ rq[q].st = "called" /\ rq[q].clone
           /\ rq'[q] # rq[q]
           /\ retryability(rq'[q].res) = "Exhausted")
          => (/\ rq'[q].st = "done"
              /\ rq'[q].res = "failure"
              /\ rq'[q].attempts = rq[q].attempts
              /\ credit' = credit)]_vars

\* C9 witness: a request that held a clone ended with a failure response
\* while the budget cannot grant a withdrawal.
FailureReturnedOnExhaustedBudget ==
    \E q \in Requests :
        /\ rq[q].st = "done" /\ rq[q].clone /\ rq[q].res = "failure"
        /\ ~can_withdraw

\* C10: a request for which clone_request gives none is sent to the inner
\* service exactly once and its response is returned, even when the
\* response is a failure and the budget has credit.
UnclonableRequestSentOnce ==
    /\ [](\A q \in Requests :
            (rq[q].st # "idle" /\ ~rq[q].clonable) => (rq[q].attempts = 1 /\ ~rq[q].clone))
    /\ [][\A q \in Requests :
             (rq[q].st = "called" /\ ~rq[q].clonable /\ rq'[q] # rq[q])
             => (rq'[q].st = "done" /\ rq'[q].res \in Results)]_vars

\* C10 witness: a request with a retry policy whose body cannot be cloned
\* ended with a failure response while the budget has credit.
UnclonableFailureNotRetried ==
    \E q \in Requests :
        /\ rq[q].policy /\ ~rq[q].clonable
        /\ rq[q].st = "done" /\ rq[q].res = "failure" /\ rq[q].attempts = 1
        /\ can_withdraw

\* C11: for each result Retry::retry sees, exactly one budget operation
\* happens: a result that is not retryable (a response classified as a
\* success, or a transport error) deposits once and withdraws nothing; a
\* response classified as a failure attempts one withdrawal and deposits
\* nothing.
OneBudgetOperationPerResult ==
    [][\A q \in Requests :
          (rq[q].st = "called" /\ rq[q].clone /\ rq'[q] # rq[q])
          => IF rq'[q].res = "failure"
             THEN /\ budget_ops' = <<"withdraw">>
                  /\ credit' = IF can_withdraw THEN credit - WithdrawAmount ELSE credit
             ELSE /\ budget_ops' = <<"deposit">>
                  /\ credit' = credit + DepositAmount]_vars

\* C11 witness: the policy saw a failure response and its one budget
\* operation was a withdrawal that was refused.
RefusedWithdrawalWasTheOnlyOperation ==
    /\ budget_ops = <<"withdraw">>
    /\ ~can_withdraw
    /\ \E q \in Requests : rq[q].st = "done" /\ rq[q].clone /\ rq[q].res = "failure"

\* C12: among the clones of a Lock at most one at a time owns the guard
\* (is between a poll_ready that acquired the lock and its call); while one
\* clone owns it, a poll_ready of any other clone returns NotReady, and no
\* step of another clone polls or calls the inner service, so the
\* poll_ready/call pairs on the inner service never interleave.
LockSerializesClones ==
    /\ [](/\ Cardinality({c \in Clones : lk[c].locked}) <= 1
          /\ \A c \in Clones : lk[c].locked => lock_holder = c)
    /\ [][\A h \in Clones, c \in Clones :
             (lk[h].locked /\ c # h /\ inner_op'.by = c)
             => (/\ inner_op'.op = "none"
                 /\ lk'[c].res \in {"none", "NotReady"}
                 /\ lk'[h] = lk[h])]_vars

\* C12 witness: one clone owns the guard with the inner service ready, and
\* another clone's poll_ready has just returned NotReady.
CloneWaitsForHolder ==
    \E h \in Clones, c \in Clones :
        /\ c # h
        /\ lk[h].locked /\ lk[h].res = "Ready"
        /\ lk[c].res = "NotReady" /\ inner_op = [by |-> c, op |-> "none"]

\* C13: once the inner service's poll_ready fails, the failure is stored in
\* the shared state; the failing caller and every later poll_ready on any
\* clone get that same error, and the inner service is never polled or
\* called again.
LockPoisonedForGood ==
    /\ [][(lock_state.kind = "Service" /\ lock_state'.kind = "Error")
          => (/\ inner_op'.op = "poll_ready"
              /\ lk'[inner_op'.by].res = "Err"
              /\ lk'[inner_op'.by].err = lock_state'.err
              /\ lock_holder' = 0)]_vars
    /\ [][lock_state.kind = "Error"
          => (/\ lock_state' = lock_state
              /\ inner_op'.op = "none"
              /\ \A c \in Clones :
                    (inner_op'.by = c /\ lk'[c].res # "none")
                    => (lk'[c].res = "Err" /\ lk'[c].err = lock_state.err))]_vars
    /\ [](\A c \in Clones : lk[c].res = "Err" => lock_state = [kind |-> "Error", err |-> lk[c].err])

\* C13 witness: the lock is poisoned, and a clone other than the one whose
\* poll_ready failed has been given the stored error.
SecondCloneGotStoredError ==
    \E c \in Clones, d \in Clones :
        /\ c # d
        /\ lock_state.kind = "Error"
        /\ lk[c].res = "Err" /\ lk[c].err = lock_state.err
        /\ lk[d].res = "Err" /\ lk[d].err = lock_state.err
        /\ inner_op = [by |-> d, op |-> "none"]

MakerErrorFailsRequest ==
    \A r \in Routed :
        rtf[r].merr # NoError
        => (/\ rtf[r].st = "done" /\ rtf[r].res = "Err" /\ rtf[r].err = rtf[r].merr
            /\ rtf[r].svc = NoKey /\ rtf[r].calls = 0 /\ ~rtf[r].ready)

\* C16 witness: a request failed with the maker's NoCapacity.
RequestFailedNoCapacity ==
    \E r \in Routed :
        /\ rtf[r].st = "done" /\ rtf[r].res = "Err"
        /\ rtf[r].merr = <<"NoCapacity", "">> /\ rtf[r].err = <<"NoCapacity", "">>

\* C17 (as stated): a request for which no key can be extracted (it names no
\* destination) fails with NotRecognized, and no service is built or called
\* for it.
UnrecognizedRequestFails ==
    \A r \in Routed :
        (rtf[r].st # "idle" /\ rtf[r].req = 0)
        => (/\ rtf[r].st = "done" /\ rtf[r].res = "Err"
            /\ rtf[r].err = <<"NotRecognized", "">>
            /\ ~rtf[r].made /\ rtf[r].calls = 0)

\* C18: every request is proxied exactly once: through the first route, in
\* list order, whose match condition holds for the request, or through the
\* default route when no configured route matches (including when the route
\* list is empty).
ProxiedOnceThroughFirstMatch ==
    proxied # NoProxied
    => LET matching == {i \in 1..Len(routes) : proxied.req \in routes[i].condition}
       IN /\ Len(proxied.via) = 1
          /\ IF matching = {}
             THEN proxied.via[1] = DefaultRoute
             ELSE \E i \in matching :
                     /\ \A j \in matching : i <= j
                     /\ proxied.via[1] = routes[i].route

\* C18 witness: two routes match the request and lead to different proxies;
\* the request went through the first.
FirstOfTwoMatchesUsed ==
    /\ Len(routes) = 2
    /\ proxied.req \in routes[1].condition /\ proxied.req \in routes[2].condition
    /\ routes[1].route # routes[2].route
    /\ proxied.via = <<routes[1].route>>

PollReadyAppliesLatestUpdate ==
    c_last.op = "poll_ready" => (c_routes = watch.value /\ c_ver = watch.version)

\* C20 witness: poll_ready returned Ready on a split that was published
\* after other tables.
LatestSplitApplied ==
    /\ c_last.op = "poll_ready" /\ c_last.res = "Ready"
    /\ watch.version = MaxVersion
    /\ c_routes.kind = "Split" /\ c_routes = watch.value

DroppedFutureCancelsRequest ==
    [][\A t \in Tokens :
          /\ (pfut[t].st = "live" /\ t \in Queued /\ pfut'[t].st = "dropped")
             => /\ \A i \in 1..Len(in_flight') : in_flight'[i] # t
                /\ Len(in_flight') = Len(in_flight) - 1
                /\ \A u \in Queued : u # t => \E i \in 1..Len(in_flight') : in_flight'[i] = u
                /\ dispatched' = dispatched
          /\ (pfut[t].st = "dropped" /\ \A i \in 1..Len(dispatched) : dispatched[i] # t)
             => \A i \in 1..Len(dispatched') : dispatched'[i] # t]_vars

\* C22 witness: the future of the first request was dropped while the
\* request was queued, and later senders have filled the queue again.
CancelledSlotReused ==
    /\ pfut[0].st = "dropped"
    /\ \A i \in 1..Len(dispatched) : dispatched[i] # 0
    /\ Len(in_flight) = QueueCapacity

\* C23: two outbound HTTP endpoints are equal if and only if their socket
\* address, peer identity and HTTP settings agree, so endpoints that differ
\* only in discovery metadata are one key of the cache and share its entry.
EndpointsEqualUpToMetadata ==
    \A a, b \in ep_cache :
        /\ eq(a, b) <=> (a.addr = b.addr /\ a.identity = b.identity /\ a.settings = b.settings)
        /\ (a.addr = b.addr /\ a.identity = b.identity /\ a.settings = b.settings) => a = b

\* C24, as stated: in scenario S1 (the budget permits retries and 5xx is
\* retryable; two requests; the backend answers 503 to the first call and
\* 200 to every other) the first request makes 2 attempts and returns 200,
\* the second makes 1 attempt and returns 200, and the budget has recorded
\* exactly 1 withdrawal and exactly 1 deposit.
ScenarioS1OneDeposit ==
    (/\ Reserve >= WithdrawAmount
     /\ backend # <<>>
     /\ backend[1] = [req |-> 1, res |-> "failure"]
     /\ \A i \in 2..Len(backend) : backend[i].res = "success"
     /\ \A q \in Requests :
           IF q \in {1, 2}
           THEN rq[q].st = "done" /\ rq[q].policy /\ rq[q].clonable
           ELSE rq[q].st = "idle")
    => /\ rq[1].attempts = 2 /\ rq[1].res = "success"
       /\ rq[2].attempts = 1 /\ rq[2].res = "success"
       /\ withdrawn = 1
       /\ deposited = 1

\* C24, amended: in scenario S1 the first request makes 2 attempts and
\* returns 200, the second makes 1 attempt and returns 200, and the budget
\* has recorded exactly 1 withdrawal and exactly 2 deposits, one for the
\* final response of each request.
ScenarioS1TwoDeposits ==
    (/\ Reserve >= WithdrawAmount
     /\ backend # <<>>
     /\ backend[1] = [req |-> 1, res |-> "failure"]
     /\ \A i \in 2..Len(backend) : backend[i].res = "success"
     /\ \A q \in Requests :
           IF q \in {1, 2}
           THEN rq[q].st = "done" /\ rq[q].policy /\ rq[q].clonable
           ELSE rq[q].st = "idle")
    => /\ rq[1].attempts = 2 /\ rq[1].res = "success"
       /\ rq[2].attempts = 1 /\ rq[2].res = "success"
       /\ withdrawn = 1
       /\ deposited = 2

\* C24 witness: scenario S1 has run to its end.
ScenarioS1Done ==
    /\ backend = <<[req |-> 1, res |-> "failure"], [req |-> 1, res |-> "success"],
                   [req |-> 2, res |-> "success"]>>
    /\ rq[1].st = "done" /\ rq[1].policy /\ rq[1].clonable
    /\ rq[2].st = "done" /\ rq[2].policy /\ rq[2].clonable

\* C25: across all the requests of a route, concurrent ones included, every
\* retry is preceded by its own granted withdrawal from the route's budget,
\* so the retries issued never exceed what the budget grants: its reserve
\* plus what the deposits added.
RetriesWithinBudget ==
    /\ retries_issued(NumRequests) = withdrawn
    /\ \A q \in Requests : rq[q].attempts > 0 => rq[q].attempts - 1 = rq[q].wd
    /\ withdrawn * WithdrawAmount <= Reserve + deposited * DepositAmount
    /\ credit = Reserve + deposited * DepositAmount - withdrawn * WithdrawAmount

\* C25 witness: two requests in flight at once were each retried, and the
\* budget grants no further withdrawal.
ConcurrentRetriesExhaustBudget ==
    /\ rq[1].st = "called" /\ rq[1].wd >= 1
    /\ rq[2].st = "called" /\ rq[2].wd >= 1
    /\ ~can_withdraw

\* C26: when the service a request is routed to is not ready, the router's
\* response fails with an Overloaded error instead of waiting for
\* readiness: no response future is left pending on a service that
\* answered NotReady to poll_ready.
UnreadyServiceIsShed ==
    \A r \in Routed :
        (rtf[r].svc # NoKey /\ ~rtf[r].ready /\ rtf[r].merr = NoError /\ rtf[r].res = "NotReady")
        => (rtf[r].st = "done" /\ rtf[r].err = <<"Overloaded", "">>)

\* C27: for layers a and b and an inner stack S, pushing a and then b onto S
\* gives b around a around S, and applying layers().push(a).push(b) to S
\* gives a service that answers every sequence of poll_ready and call the
\* same way (here for any number of pushes).
PushComposesOuterOverInner ==
    /\ Len(sv_stack) = Len(sv_pushed)
    /\ \A i \in 1..Len(sv_pushed) : sv_stack[i] = sv_pushed[Len(sv_pushed) + 1 - i]
    /\ sv_out.layered = sv_out.stacked

\* C27 witness: after push(a).push(b) with b a load-shedder and a of another
\* name, a call made while S was not ready was shed by b on both services.
ShedByOuterLayerOnBoth ==
    /\ Len(sv_pushed) = 2
    /\ sv_pushed[1].name # sv_pushed[2].name
    /\ sv_pushed[1].kind = "pass" /\ sv_pushed[2].kind = "shed"
    /\ sv_out.stacked.op = "call" /\ sv_out.stacked.res = "Overloaded"
    /\ sv_out.layered = sv_out.stacked

UpdateReusesServicesByName ==
    [][(u_routes' # u_routes /\ (u_routes'.kind = "Split" \/ u_routes'.addr # NoAddr))
       => /\ \A a \in Addrs :
                (get(u_routes.services, a) # 0 /\ get(u_routes'.services, a) # 0)
                => get(u_routes'.services, a) = get(u_routes.services, a)
          /\ made' - made =
                Cardinality({a \in Addrs : get(u_routes.services, a) = 0
                                           /\ get(u_routes'.services, a) # 0})]_vars

\* C32: a call is dispatched by the table the preceding poll_ready examined:
\* an update published between poll_ready and call does not change where
\* the call goes; the table is replaced only inside poll_ready, as a whole
\* (by the table published last); and a replacement discards the cached
\* index, so that an index cached was found ready in the present table.
CallUsesTableOfPollReady ==
    [][/\ c_last'.op = "call"
          => /\ c_routes' = c_routes
             /\ \E i \in 1..Len(c_routes.services) : c_last'.to = c_routes.services[i]
             /\ c_routes.kind = "Split" => c_last'.to = c_routes.services[next_split_index]
       /\ c_last'.op # "poll_ready"
          => /\ c_routes' = c_routes /\ c_ver' = c_ver
             /\ next_split_index' \in {0, next_split_index}
       /\ c_ver' # c_ver
          => /\ c_routes' = watch.value /\ c_ver' = watch.version
             /\ next_split_index' # 0
                => /\ c_last'.polled # <<>>
                   /\ next_split_index' = c_last'.polled[Len(c_last'.polled)]
                   /\ c_last'.answers[Len(c_last'.polled)] = "Ready"
       /\ next_split_index' # 0
          => c_routes'.kind = "Split" /\ next_split_index' <= Len(c_routes'.services)]_vars

\* C32 witness: a call was dispatched while a newer table, which does not
\* hold the destination called, was already published.
CallAfterNewerUpdate ==
    /\ c_last.op = "call"
    /\ c_ver # watch.version
    /\ c_routes.kind = "Split"
    /\ \A i \in 1..Len(watch.value.services) : watch.value.services[i] # c_last.to

\* C33: when a clone that acquired the lock in poll_ready is dropped before
\* calling, the lock is released; a poll_ready of another clone made while
\* the lock is free does not wait for it (it acquires the lock, or returns
\* the stored error); and the lock is never held by a clone without guard.
DroppedCloneReleasesLock ==
    /\ [](lock_holder # 0 => lk[lock_holder].locked)
    /\ [][\A c \in Clones :
             /\ (lk[c].locked /\ ~lk'[c].locked) => lock_holder' = 0
             /\ (lock_holder = 0 /\ inner_op'.by = c /\ lk'[c].res # "none")
                => /\ lk'[c].res = "NotReady" => inner_op'.op = "poll_ready"
                   /\ lk'[c].res \in {"Ready", "NotReady"} => lk'[c].locked /\ lock_holder' = c]_vars

\* C33 witness: a clone was dropped while it owned the guard, and another
\* clone has acquired the lock since and is ready to call.
WaiterAcquiredAfterDrop ==
    /\ lock_freed # 0
    /\ lk[lock_freed] = NoLock
    /\ \E d \in Clones :
          d # lock_freed /\ lk[d].locked /\ lk[d].res = "Ready" /\ lock_holder = d

\* C34: whenever the dispatcher is in split mode the services are as many as
\* the weights of the distribution and at least two, so that no poll_ready
\* samples an index out of range, also after set_split with a list that
\* names an address twice.
SplitServicesMatchWeights ==
    c_routes.kind = "Split"
    => /\ Len(c_routes.services) = Len(c_routes.weights)
       /\ Len(c_routes.services) >= 2
       /\ c_last.res # "panic"

\* C35: once every Push handle and every pending PushFuture is dropped, in
\* any order, the daemon parked in poll_complete is notified, so that
\* poll_complete is polled again and returns ready: the daemon is never
\* left parked there, alone, with no notification on its way.
ParkedDaemonNotifiedWhenAlone ==
    (pop = "completing" /\ strong_count = 1) => DaemonTask \in notified

\* C36: a sender parked by a not-ready answer of a full queue is notified
\* once the queue has room again, whether the daemon popped a request or a
\* queued request was cancelled: no sender stays parked, with no
\* notification on its way, while the queue is below capacity.
ParkedSenderNotifiedOnRoom ==
    \A s \in Senders :
        (push[s].st = "waiting" /\ Len(in_flight) < QueueCapacity) => s \in notified

\* C37: within one MakeFuture the fallback maker is invoked at most once,
\* only after its poll_ready reported ready, and with the target given to
\* the primary; when the fallback's future then fails, that error is
\* returned, and neither maker is asked again.
FallbackInvokedOnceWhenReady ==
    /\ [](\A f \in Makers :
            LET m == mkf[f] IN
            /\ m.invoked <= 1
            /\ m.invoked = 1 <=> m.fallback # 0
            /\ m.fallback # 0 => (m.fready /\ m.fallback = m.primary /\ m.st \in {"Fallback", "done"})
            /\ m.ferr # NoError => (m.st = "done" /\ m.res = "Err" /\ m.err = m.ferr /\ m.invoked = 1))
    /\ [][\A f \in Makers :
             /\ mkf[f].st = "done" => mkf'[f] \in {mkf[f], NoMakeFuture}
             /\ (mkf[f].st = "Fallback" /\ mkf'[f] # NoMakeFuture)
                => /\ mkf'[f].st \in {"Fallback", "done"}
                   /\ mkf'[f].primary = mkf[f].primary
                   /\ mkf'[f].fallback = mkf[f].fallback
                   /\ mkf'[f].invoked = mkf[f].invoked]_vars

\* C37 witness: the fallback maker, invoked once when ready with the target
\* of the primary, failed with an error other than the primary's, and that
\* error was returned.
FallbackFailureReturned ==
    \E f \in Makers :
        /\ mkf[f].st = "done" /\ mkf[f].res = "Err"
        /\ mkf[f].invoked = 1 /\ mkf[f].fready
        /\ mkf[f].fallback = mkf[f].primary
        /\ mkf[f].err = mkf[f].ferr /\ mkf[f].ferr # mkf[f].perr

\* C38: converting an error to LogicalError twice gives what converting it
\* once gives, and whenever the balancer of a concrete target raised a
\* DiscoveryRejected, every error the profile's lock returns for it, on the
\* poll that saw it and on the later ones answered from the stored error,
\* satisfies the predicate of the fallback layer.
DiscoveryRejectedSurvivesBothLocks ==
    /\ \A e \in OutboundErrors :
           LogicalError_from(LogicalError_from(e)) = LogicalError_from(e)
    /\ \A p \in OutboundProfiles :
           (ob_res[p].res = "Err" /\ ob_src[p][1] = "DiscoveryRejected")
               => predicate(ob_res[p].err)

\* C38 witness: a balancer raised DiscoveryRejected; one profile's lock was
\* answered from its stored error, another's returned the error as it came
\* up from the balancer's lock, and both errors satisfy the predicate.
PoisonedLocksStillRejected ==
    \E p, q \in OutboundProfiles :
        /\ ob_src[p][1] = "DiscoveryRejected" /\ ob_src[q][1] = "DiscoveryRejected"
        /\ ob_res[p].res = "Err" /\ ob_res[p].cached /\ predicate(ob_res[p].err)
        /\ ob_res[q].res = "Err" /\ ~ob_res[q].cached /\ predicate(ob_res[q].err)

GuardHeldOnlyOverService ==
    /\ \A c \in Clones :
          /\ lk[c].locked => (lock_state.kind = "Service" /\ lock_holder = c)
          /\ lk[c].res = "Ready" => lk[c].locked
          /\ lk[c].res \notin {"must not lock on error", "called before ready"}
    /\ lock_state.kind = "Error" => lock_holder = 0

\* C40 witness: the inner service failed under one clone, which stored the
\* error and gave up the guard; another clone then took the lock, observed
\* the error and kept no guard either.
ErrorLeftNoGuard ==
    \E c \in Clones, d \in Clones :
        /\ c # d
        /\ lock_state.kind = "Error" /\ lock_holder = 0
        /\ lk[c].res = "Err" /\ ~lk[c].locked
        /\ lk[d].res = "Err" /\ ~lk[d].locked
        /\ inner_op = [by |-> d, op |-> "none"]

====
